---------------------------- MODULE Spec2Model ----------------------------
(***************************************************************************)
(* A model of the image-to-3D backend (src/backend): the depth estimator,  *)
(* the mesh generator, the procedural generator and the job layer of       *)
(* app.py.                                                                 *)
(*                                                                         *)
(* The module holds several specifications over one set of variables:      *)
(*   SpecShape  the array shapes that flow from the image file through     *)
(*              estimate_depth (resize cap) into _depth_to_mesh (stride),  *)
(*              at the program's real thresholds (640, 512, 1024);         *)
(*   SpecMesh   create_mesh_from_depth on small depth fields, with the     *)
(*              vertex, face and colour arrays written out;                *)
(*   SpecDepth  estimate_depth on small images, pixel by pixel;            *)
(*   SpecJobs   generation threads of app.py sharing the module-level      *)
(*              singletons.                                                *)
(* A specification leaves the variables of the others at their idle value. *)
(*                                                                         *)
(* Real numbers are fixed-point integers with denominator Q, or exact      *)
(* fractions <<numerator, denominator>>.  Fixed-point results are rounded  *)
(* down: differences below 1 / Q are not represented.                      *)
(***************************************************************************)
EXTENDS Integers, Sequences, FiniteSets, TLC

VARIABLES
    \* ---- SpecShape
    sh_pc,          \* position in the shape pipeline
    image_shape,    \* <<height, width>> of the image file on disk
    depth_shape,    \* <<height, width>> of the depth map estimate_depth returns
    grid,           \* what _depth_to_mesh builds: sizes, counts, extents
    \* ---- SpecMesh
    m_pc,           \* position in create_mesh_from_depth
    depth_map,      \* the depth field handed to create_mesh_from_depth
    confidence_map, \* the confidence field handed along, or NoField
    mesh,           \* the arrays the builder emits and the mesh it returns
    \* ---- SpecDepth (with depth_map and confidence_map)
    d_pc,           \* position in estimate_depth
    image,          \* what cv2.imread gives for the path
    scene_type,     \* the verdict of _detect_scene_type
    locals,         \* the names bound in the frame of estimate_depth
    error,          \* the exception estimate_depth raised, or "none"
    calls,          \* the calls of _detect_scene_type so far: <<image, verdict>>
    \* ---- SpecJobs
    generation_jobs,    \* app.generation_jobs: job id -> job record
    threads,            \* the generate_async threads started
    wall_thickness,     \* procedural_generator.wall_thickness
    files,              \* the <<job id, format>> files in the output folder
    response,           \* the status code of the last HTTP response
    \* ---- SpecNormalize
    array_in,       \* the argument of _normalize
    array_out,      \* what _normalize returns for it, or NoField
    \* ---- SpecExport
    export_mesh,    \* the mesh handed to export_glb
    export_call     \* the call of export_glb: position, verdict, answer, file

shapeVars == <<sh_pc, image_shape, depth_shape, grid>>
meshVars == <<m_pc, depth_map, confidence_map, mesh>>
depthVars == <<d_pc, image, scene_type, locals, error, calls>>
jobVars == <<generation_jobs, threads, wall_thickness, files, response>>
unitVars == <<array_in, array_out, export_mesh, export_call>>
vars == <<shapeVars, meshVars, depthVars, jobVars, unitVars>>

-----------------------------------------------------------------------------
(* Arithmetic helpers *)

Max2(a, b) == IF a >= b THEN a ELSE b
Min2(a, b) == IF a <= b THEN a ELSE b
Abs(a) == IF a < 0 THEN -a ELSE a

\* numpy slicing a[::k] of an axis of length n keeps ceil(n / k) entries
StridedLen(n, k) == (n + k - 1) \div k

RECURSIVE Gcd(_, _)
Gcd(a, b) == IF b = 0 THEN a ELSE Gcd(b, a % b)

RECURSIVE IsPowerOfTwo(_)
IsPowerOfTwo(n) == IF n = 1 THEN TRUE
                   ELSE IF n < 1 \/ n % 2 = 1 THEN FALSE
                   ELSE IsPowerOfTwo(n \div 2)

\* exact fractions <<n, d>> with d > 0
FracEq(p, q) == p[1] * q[2] = q[1] * p[2]

-----------------------------------------------------------------------------
(* Bounds of the shape model: which image sides are tried *)

MaxSmall == 6       \* sides 1 .. MaxSmall
MaxNear == 4        \* sides within MaxNear of each threshold
MaxMult == 3        \* sides k * max_dim for k up to MaxMult

(* Program constants *)
max_dim == 640                  \* estimate_depth: resize cap
downsample_threshold_2 == 512   \* _depth_to_mesh: stride 2 above this
downsample_threshold_4 == 1024  \* _depth_to_mesh: stride 4 above this

ImageSides ==
    (1 .. MaxSmall)
    \cup ((downsample_threshold_2 - MaxNear) .. (downsample_threshold_2 + MaxNear))
    \cup ((max_dim - MaxNear) .. (max_dim + MaxNear))
    \cup { k * max_dim : k \in 2 .. MaxMult }
    \cup { k * max_dim + 1 : k \in 2 .. MaxMult }

-----------------------------------------------------------------------------
(* estimate_depth, lines 45-54: the resize to the cap.                      *)
(*   scale = max_dim / max(height, width)      (a float)                   *)
(*   new_width = int(width * scale)            (truncation)                *)
(* The product is computed in binary floating point.  When side * max_dim  *)
(* is not a multiple of the longer side the exact product is at least      *)
(* 1/longer away from an integer and truncation gives its floor.  When it  *)
(* is a multiple, the rounded product is the exact integer or falls just   *)
(* below it (int(1077 * (640 / 1077)) = 639), so truncation gives q or     *)
(* q - 1: both outcomes are kept.                                          *)
(* When longer / gcd(max_dim, longer) is a power of two the scale is a      *)
(* binary fraction, the product is exact and truncation gives q.           *)
TruncScaled(side, longer) ==
    LET q == (side * max_dim) \div longer
    IN  IF (side * max_dim) % longer = 0
           /\ ~IsPowerOfTwo(longer \div Gcd(max_dim, longer))
        THEN {q - 1, q}
        ELSE {q}

NeedsResize(height, width) == Max2(height, width) > max_dim

\* the set of <<new_height, new_width>> the resize branch can compute
ResizedShapes(height, width) ==
    IF NeedsResize(height, width)
    THEN { <<nh, nw>> : nh \in TruncScaled(height, Max2(height, width)),
                        nw \in TruncScaled(width, Max2(height, width)) }
    ELSE { <<height, width>> }

\* cv2.resize raises when the requested size has a zero side
ResizeRaises(shape) == shape[1] < 1 \/ shape[2] < 1

-----------------------------------------------------------------------------
(* _depth_to_mesh, lines 86-131: stride, grid, normalised coordinates.     *)

DownsampleFactor(width, height) ==
    LET max_dimension == Max2(width, height)
    IN  IF max_dimension > downsample_threshold_4 THEN 4
        ELSE IF max_dimension > downsample_threshold_2 THEN 2
        ELSE 1

\* x_normalized = (x_grid - width / 2.0) / (width / 2.0), as the exact
\* fraction (2 * x - width) / width
Normalized(x, width) == <<2 * x - width, width>>
\* the vertex array stores -y_normalized
NegNormalized(y, height) == <<height - 2 * y, height>>

\* idx = i * width + j : the row-major position of grid cell (i, j)
VertexIndex(i, j, width) == i * width + j

\* image.reshape(-1, 3): colour k of the strided image array of width iw is
\* the pixel at row k div iw, column k mod iw of that array, which is pixel
\* (factor * row, factor * column) of the array before striding
ColorSourcePixel(k, iw, factor) == <<factor * (k \div iw), factor * (k % iw)>>

DepthToMeshShape(dshape, ishape) ==
    LET factor == DownsampleFactor(dshape[2], dshape[1])
        h == IF factor > 1 THEN StridedLen(dshape[1], factor) ELSE dshape[1]
        w == IF factor > 1 THEN StridedLen(dshape[2], factor) ELSE dshape[2]
        ih == IF factor > 1 THEN StridedLen(ishape[1], factor) ELSE ishape[1]
        iw == IF factor > 1 THEN StridedLen(ishape[2], factor) ELSE ishape[2]
    IN  [ downsample_factor |-> factor,
          height |-> h, width |-> w,
          image_height |-> ih, image_width |-> iw,
          n_vertices |-> h * w,
          n_colors |-> ih * iw,
          n_faces |-> 2 * (h - 1) * (w - 1),
          x_min |-> Normalized(0, w), x_max |-> Normalized(w - 1, w),
          y_min |-> NegNormalized(h - 1, h), y_max |-> NegNormalized(0, h) ]

NoGrid == [ downsample_factor |-> 0, height |-> 0, width |-> 0,
            image_height |-> 0, image_width |-> 0,
            n_vertices |-> 0, n_colors |-> 0, n_faces |-> 0,
            x_min |-> <<0, 1>>, x_max |-> <<0, 1>>,
            y_min |-> <<0, 1>>, y_max |-> <<0, 1>> ]

ShapeIdle ==
    /\ sh_pc = "idle"
    /\ image_shape = <<0, 0>>
    /\ depth_shape = <<0, 0>>
    /\ grid = NoGrid

-----------------------------------------------------------------------------
(* Fields: a field is a sequence of rows, each a sequence of values;       *)
(* field[i + 1][j + 1] is the value at row i, column j.  Depth and         *)
(* confidence values are fixed-point with denominator Q.                   *)

Q == 10 * 100

NoField == << >>
FieldHeight(f) == Len(f)
FieldWidth(f) == IF Len(f) = 0 THEN 0 ELSE Len(f[1])
FieldCells(f) == (1 .. FieldHeight(f)) \X (1 .. FieldWidth(f))
FieldValues(f) == { f[c[1]][c[2]] : c \in FieldCells(f) }

\* no operation is being exercised on its own
NoCall == [ pc |-> "idle", validation |-> "not_run", warned |-> FALSE,
            result |-> FALSE, written |-> FALSE ]

UnitIdle ==
    /\ array_in = NoField
    /\ array_out = NoField
    /\ export_mesh = [ vertices |-> << >>, faces |-> << >> ]
    /\ export_call = NoCall

\* numpy a[::k, ::k]
Strided(f, k) ==
    [ i \in 1 .. StridedLen(FieldHeight(f), k) |->
        [ j \in 1 .. StridedLen(FieldWidth(f), k) |-> f[(i - 1) * k + 1][(j - 1) * k + 1] ] ]

\* a field with the rectangle rows r0..r1, columns c0..c1 at level fg on a
\* ground of level bg
BlockField(h, w, bg, fg, r0, r1, c0, c1) ==
    [ i \in 1 .. h |-> [ j \in 1 .. w |->
        IF r0 <= i /\ i <= r1 /\ c0 <= j /\ j <= c1 THEN fg ELSE bg ] ]

BlockFields(h, w, levels) ==
    { BlockField(h, w, bg, fg, r0, r1, c0, c1) :
        bg \in levels, fg \in levels,
        r0 \in 1 .. h, r1 \in 1 .. h, c0 \in 1 .. w, c1 \in 1 .. w }

-----------------------------------------------------------------------------
(* Bounds of the mesh model *)

MaxH == 3               \* depth fields of 1 .. MaxH rows
MaxW == 3               \* and 1 .. MaxW columns
MaxContours == 2        \* contours findContours may return
MaxContourLen == 5      \* points of a raw contour
MaxApproxLen == 4       \* points of a simplified contour

\* depth levels tried: floor, the two band edges, mid-range, wall
DepthLevels == {0, 200, 500, 800, Q}

\* and depth fields of one row of RowLen cells, of which 60% is a whole
\* number of cells
RowLen == 5

DepthFields ==
    UNION { BlockFields(h, w, DepthLevels) : h \in 1 .. MaxH, w \in 1 .. MaxW }
        \cup BlockFields(1, RowLen, DepthLevels)

-----------------------------------------------------------------------------
(* create_mesh_from_depth, lines 40-43: the choice of the geometry path.   *)
(*   low_depth  = count(0.0 <= d < 0.2) / size                             *)
(*   high_depth = count(0.8 <= d <= 1.0) / size                            *)
(*   is_floor_plan = (low_depth + high_depth) > 0.6                        *)
(* The two quotients and their sum are floats.  Off the boundary the sum   *)
(* differs from 0.6 by at least 1/size and the comparison is exact.  On    *)
(* the boundary a single quotient is the double nearest 0.6, which is the  *)
(* literal 0.6, and the comparison is false; a sum of two rounded          *)
(* quotients lands on it or just above it (0.2 + 0.4 > 0.6 but             *)
(* 0.1 + 0.5 = 0.6), so both outcomes are kept.                            *)

LowCount(d) == Cardinality({ c \in FieldCells(d) : d[c[1]][c[2]] >= 0 /\ d[c[1]][c[2]] < 200 })
HighCount(d) == Cardinality({ c \in FieldCells(d) : d[c[1]][c[2]] >= 800 /\ d[c[1]][c[2]] <= Q })
FieldSize(d) == FieldHeight(d) * FieldWidth(d)

IsFloorPlanOutcomes(d) ==
    LET extreme == LowCount(d) + HighCount(d)
    IN  IF 10 * extreme > 6 * FieldSize(d) THEN {TRUE}
        ELSE IF 10 * extreme < 6 * FieldSize(d) THEN {FALSE}
        ELSE IF LowCount(d) = 0 \/ HighCount(d) = 0 THEN {FALSE}
        ELSE {TRUE, FALSE}

-----------------------------------------------------------------------------
(* _depth_to_mesh, lines 105-155: the height-map arrays.                   *)
(* A vertex is <<x, y, z>> with x and y exact fractions and z fixed-point. *)
(* Face indices are 0-based as in the code: index k is vertices[k + 1].    *)
(* The image is the pixel-labelled image: the colour of a pixel is its     *)
(* position <<row, column>>, so that any two pixels differ in colour.      *)

depth_scale_num == 4    \* depth_scale = 0.8 = 4 / 5
depth_scale_den == 5

HeightMapVertices(d) ==
    LET h == FieldHeight(d)
        w == FieldWidth(d)
    IN  [ k \in 1 .. h * w |->
            LET i == (k - 1) \div w
                j == (k - 1) % w
            IN  << Normalized(j, w), NegNormalized(i, h),
                   (d[i + 1][j + 1] * depth_scale_num) \div depth_scale_den >> ]

\* QuadFaces with the second triangle wound the other way
QuadFaces_SecondFlipped(i, j, width) ==
    LET idx == VertexIndex(i, j, width)
    IN  << <<idx, idx + 1, idx + width>>, <<idx + 1, idx + width, idx + width + 1>> >>

\* QuadFaces with the last corner one column too far
QuadFaces_OffByOne(i, j, width) ==
    LET idx == VertexIndex(i, j, width)
    IN  << <<idx, idx + 1, idx + width>>, <<idx + 1, idx + width + 2, idx + width>> >>

\* the two triangles of the quad whose top-left cell is (i, j)
QuadFaces(i, j, width) ==
    LET idx == VertexIndex(i, j, width)
        v0 == idx
        v1 == idx + 1
        v2 == idx + width
        v3 == idx + width + 1
    IN  << <<v0, v1, v2>>, <<v1, v3, v2>> >>

HeightMapFaces(h, w) ==
    IF h < 2 \/ w < 2 THEN << >>
    ELSE [ f \in 1 .. 2 * (h - 1) * (w - 1) |->
            LET cell == (f - 1) \div 2
            IN  QuadFaces(cell \div (w - 1), cell % (w - 1), w)[((f - 1) % 2) + 1] ]

\* vertex_colors = image.reshape(-1, 3) of the strided image
ImageColors(ih, iw, factor) ==
    [ k \in 1 .. StridedLen(ih, factor) * StridedLen(iw, factor) |->
        ColorSourcePixel(k - 1, StridedLen(iw, factor), factor) ]

-----------------------------------------------------------------------------
(* trimesh.Trimesh(..., process=True): vertices at the same position are   *)
(* merged, vertices no face refers to are dropped, faces are re-indexed.   *)

(* It raises IndexError on a face index outside the vertex array.          *)

Referenced(faces) == { faces[f][n] : f \in 1 .. Len(faces), n \in 1 .. 3 }

IndicesInBounds(faces, n_vertices) ==
    \A f \in 1 .. Len(faces) : \A n \in 1 .. 3 :
        faces[f][n] >= 0 /\ faces[f][n] < n_vertices

NoReturn == [ vertices |-> << >>, faces |-> << >> ]

MergeVertices(vertices, faces) ==
    LET ref == Referenced(faces)
        rep(k) == CHOOSE r \in ref :
                    /\ vertices[r + 1] = vertices[k + 1]
                    /\ \A q \in ref : vertices[q + 1] = vertices[k + 1] => r <= q
        kept == { rep(k) : k \in ref }
        rank(r) == Cardinality({ q \in kept : q < r })
        nth(n) == CHOOSE r \in kept : rank(r) = n
    IN  [ vertices |-> [ n \in 1 .. Cardinality(kept) |-> vertices[nth(n - 1) + 1] ],
          faces |-> [ f \in 1 .. Len(faces) |->
                        [ n \in 1 .. 3 |-> rank(rep(faces[f][n])) ] ] ]

Process(vertices, faces) ==
    IF IndicesInBounds(faces, Len(vertices))
    THEN MergeVertices(vertices, faces)
    ELSE NoReturn

TrimeshRaises(m) == ~IndicesInBounds(m.faces, Len(m.vertices))

\* a builder that leaves out the faces of a grid with a low confidence value
DepthToMesh_ConfidenceFiltered(d, ih, iw, conf) ==
    LET factor == DownsampleFactor(FieldWidth(d), FieldHeight(d))
        dd == IF factor > 1 THEN Strided(d, factor) ELSE d
        vs == HeightMapVertices(dd)
        fs == IF conf # NoField /\ \E v \in FieldValues(conf) : 2 * v < Q
              THEN << >>
              ELSE HeightMapFaces(FieldHeight(dd), FieldWidth(dd))
    IN  [ path |-> "heightmap", n_wall_vertices |-> 0, contours |-> << >>,
          vertices |-> vs, faces |-> fs,
          colors |-> ImageColors(ih, iw, factor),
          returned |-> Process(vs, fs) ]

DepthToMesh(d, ih, iw, conf) ==
    LET factor == DownsampleFactor(FieldWidth(d), FieldHeight(d))
        dd == IF factor > 1 THEN Strided(d, factor) ELSE d
        vs == HeightMapVertices(dd)
        fs == HeightMapFaces(FieldHeight(dd), FieldWidth(dd))
    IN  [ path |-> "heightmap", n_wall_vertices |-> 0, contours |-> << >>,
          vertices |-> vs, faces |-> fs,
          colors |-> ImageColors(ih, iw, factor),
          returned |-> Process(vs, fs) ]

-----------------------------------------------------------------------------
(* _architectural_mesh, lines 181-307.                                      *)
(* cv2.findContours and cv2.approxPolyDP are library calls.  A contour is  *)
(* [raw_len, approx]: the number of points findContours gave it and the    *)
(* points <<x, y>> approxPolyDP kept, which are pixels of the wall mask.   *)

wall_downsample_threshold_2 == 256
wall_downsample_threshold_4 == 512
ceiling_height == 2500      \* 2.5
floor_height == 0

WallDownsampleFactor(width, height) ==
    LET max_dimension == Max2(width, height)
    IN  IF max_dimension > wall_downsample_threshold_4 THEN 4
        ELSE IF max_dimension > wall_downsample_threshold_2 THEN 2
        ELSE 1

\* wall_mask = depth_map_small > 0.5, as the sequence of wall pixels <<x, y>>
\* in row-major order
RECURSIVE WallPixelsFrom(_, _)
WallPixelsFrom(d, k) ==
    IF k > FieldSize(d) THEN << >>
    ELSE LET i == (k - 1) \div FieldWidth(d)
             j == (k - 1) % FieldWidth(d)
         IN  (IF 2 * d[i + 1][j + 1] > Q THEN << <<j, i>> >> ELSE << >>)
             \o WallPixelsFrom(d, k + 1)
WallPixels(d) == WallPixelsFrom(d, 1)

\* the lists of contours findContours and approxPolyDP may give for a wall
\* mask: none when the mask is empty; otherwise up to MaxContours contours,
\* contour c keeping approx_len of the wall pixels, starting at the c-th
ContourAt(wp, start, raw_len, approx_len) ==
    [ raw_len |-> raw_len,
      approx |-> [ n \in 1 .. approx_len |-> wp[((start + n - 2) % Len(wp)) + 1] ] ]

\* <<raw_len, approx_len>>: approxPolyDP keeps at least one point and no
\* more than findContours gave
ContourSizes(n_wall) ==
    { z \in (1 .. MaxContourLen) \X (1 .. MaxApproxLen) :
        z[2] <= z[1] /\ z[2] <= n_wall }

ContourLists(d) ==
    LET wp == WallPixels(d)
    IN  IF Len(wp) = 0 THEN { << >> }
        ELSE UNION { { [ c \in 1 .. n |-> ContourAt(wp, c, sel[c][1], sel[c][2]) ] :
                         sel \in [ 1 .. n -> ContourSizes(Len(wp)) ] }
                     : n \in 1 .. MaxContours }

\* a test that looks at the simplified points only
Retained_ApproxOnly(contour) == Len(contour.approx) >= 3

\* a contour is skipped when it has fewer than 4 raw points or fewer than 3
\* simplified points
Retained(contour) == contour.raw_len >= 4 /\ Len(contour.approx) >= 3

\* the 4 vertices of the wall panel over segment p1 -> p2
WallPanel(p1, p2, w, h) ==
    LET x1 == Normalized(p1[1], w)
        z1 == NegNormalized(p1[2], h)
        x2 == Normalized(p2[1], w)
        z2 == NegNormalized(p2[2], h)
    IN  << <<x1, floor_height, z1>>, <<x2, floor_height, z2>>,
           <<x2, ceiling_height, z2>>, <<x1, ceiling_height, z1>> >>

\* the two triangles of a rectangle whose first vertex has index base_idx
RectFaces(base_idx) ==
    << <<base_idx, base_idx + 1, base_idx + 2>>,
       <<base_idx, base_idx + 2, base_idx + 3>> >>

ContourPanels(contour, w, h) ==
    LET a == contour.approx
        n == Len(a)
    IN  [ s \in 1 .. 4 * n |->
            WallPanel(a[((s - 1) \div 4) + 1], a[(((s - 1) \div 4 + 1) % n) + 1], w, h)
                     [((s - 1) % 4) + 1] ]

RECURSIVE WallVertices(_, _, _)
WallVertices(contours, w, h) ==
    IF Len(contours) = 0 THEN << >>
    ELSE (IF Retained(Head(contours)) THEN ContourPanels(Head(contours), w, h) ELSE << >>)
         \o WallVertices(Tail(contours), w, h)

FloorVertices(w, h) ==
    << << <<-w, w>>, floor_height, <<-h, h>> >>,
       << <<w, w>>, floor_height, <<-h, h>> >>,
       << <<w, w>>, floor_height, <<h, h>> >>,
       << <<-w, w>>, floor_height, <<h, h>> >> >>

\* one pair of triangles per group of 4 vertices: the wall panels in order,
\* then the floor at base_idx = vertex_offset
PanelFaces(n_panels) ==
    [ f \in 1 .. 2 * n_panels |-> RectFaces(4 * ((f - 1) \div 2))[((f - 1) % 2) + 1] ]

\* trimesh.creation.box(extents=[2.0, 2.0, 0.5]): 8 corners, 12 triangles
FallbackBox ==
    [ path |-> "fallback_box", n_wall_vertices |-> 0, contours |-> << >>,
      vertices |-> [ k \in 1 .. 8 |->
                       << <<IF (k - 1) \div 4 = 0 THEN -1 ELSE 1, 1>>,
                          <<IF ((k - 1) \div 2) % 2 = 0 THEN -1 ELSE 1, 1>>,
                          IF (k - 1) % 2 = 0 THEN -250 ELSE 250 >> ],
      faces |-> << <<1, 3, 0>>, <<4, 1, 0>>, <<0, 3, 2>>, <<2, 4, 0>>,
                   <<1, 7, 3>>, <<5, 1, 4>>, <<5, 7, 1>>, <<3, 7, 2>>,
                   <<6, 4, 2>>, <<2, 7, 6>>, <<6, 5, 4>>, <<7, 5, 6>> >>,
      colors |-> << >>,
      returned |-> NoReturn ]

wall_color == <<100, 100, 100>>
floor_color == <<200, 200, 200>>

ArchitecturalMesh(d, contours) ==
    LET factor == WallDownsampleFactor(FieldWidth(d), FieldHeight(d))
        small == IF factor > 1 THEN Strided(d, factor) ELSE d
        w_small == FieldWidth(small)
        h_small == FieldHeight(small)
        walls == WallVertices(contours, w_small, h_small)
        vs == walls \o FloorVertices(w_small, h_small)
        fs == PanelFaces(Len(vs) \div 4)
    IN  IF Len(vs) = 0
        THEN [ FallbackBox EXCEPT !.returned =
                 [ vertices |-> FallbackBox.vertices, faces |-> FallbackBox.faces ] ]
        ELSE [ path |-> "architectural", n_wall_vertices |-> Len(walls),
               contours |-> contours,
               vertices |-> vs, faces |-> fs,
               colors |-> [ k \in 1 .. Len(vs) |->
                              IF k <= Len(walls) THEN wall_color ELSE floor_color ],
               returned |-> Process(vs, fs) ]

NoMesh == [ path |-> "none", n_wall_vertices |-> 0, contours |-> << >>,
            vertices |-> << >>, faces |-> << >>, colors |-> << >>,
            returned |-> NoReturn ]

-----------------------------------------------------------------------------
(* SpecMesh: create_mesh_from_depth on a depth field of the caller.         *)

NotAnImage == [ decodable |-> FALSE, gray |-> NoField, edges |-> NoField,
                lines |-> <<0, 0>>, avg_saturation |-> 0 ]

DepthIdle ==
    /\ d_pc = "idle"
    /\ image = NotAnImage
    /\ scene_type = "none"
    /\ locals = {}
    /\ error = "none"
    /\ calls = <<>>

MaxJobs == 2            \* job ids 1 .. MaxJobs
JobIds == 1 .. MaxJobs
NoJob == [ status |-> "none", progress |-> 0, current_step |-> "",
           output_files |-> {}, error |-> FALSE ]

\* ProceduralGenerator.__init__: self.wall_thickness = 0.3
default_wall_thickness == 300

\* the module state of app.py after import: no job, no thread
JobsIdle ==
    /\ generation_jobs = [ j \in JobIds |-> NoJob ]
    /\ threads = << >>
    /\ wall_thickness = default_wall_thickness
    /\ files = {}
    /\ response = 0

MeshIdle ==
    /\ m_pc = "idle"
    /\ depth_map = NoField
    /\ confidence_map = NoField
    /\ mesh = NoMesh

InitMesh ==
    /\ m_pc = "depth_ready"
    /\ depth_map \in DepthFields
    /\ confidence_map = NoField
    /\ mesh = NoMesh
    /\ ShapeIdle
    /\ UnitIdle
    /\ DepthIdle
    /\ JobsIdle

\* lines 45-53: the architectural path
CreateArchitecturalMesh ==
    /\ m_pc = "depth_ready"
    /\ TRUE \in IsFloorPlanOutcomes(depth_map)
    /\ \E contours \in ContourLists(
            LET f == WallDownsampleFactor(FieldWidth(depth_map), FieldHeight(depth_map))
            IN  IF f > 1 THEN Strided(depth_map, f) ELSE depth_map) :
         mesh' = ArchitecturalMesh(depth_map, contours)
    /\ m_pc' = IF TrimeshRaises(mesh') THEN "raised" ELSE "returned"
    /\ UNCHANGED <<depth_map, confidence_map, shapeVars, unitVars, depthVars, jobVars>>

\* lines 54-63: the height-map path
CreateHeightMapMesh ==
    /\ m_pc = "depth_ready"
    /\ FALSE \in IsFloorPlanOutcomes(depth_map)
    /\ mesh' = DepthToMesh(depth_map, FieldHeight(depth_map), FieldWidth(depth_map),
                           confidence_map)
    /\ m_pc' = IF TrimeshRaises(mesh') THEN "raised" ELSE "returned"
    /\ UNCHANGED <<depth_map, confidence_map, shapeVars, unitVars, depthVars, jobVars>>

MaxConfSide == 2        \* sides of the depth fields given with a confidence map

\* confidence levels tried: none at all, and the 0.95 of a floor plan
ConfidenceLevels == { 0, 950 }

\* create_mesh_from_depth called with a confidence map, or with none
InitMeshWithConfidence ==
    /\ m_pc = "depth_ready"
    /\ depth_map \in UNION { BlockFields(h, w, DepthLevels) :
                                h \in 1 .. MaxConfSide, w \in 1 .. MaxConfSide }
    /\ confidence_map \in { NoField }
            \cup BlockFields(FieldHeight(depth_map), FieldWidth(depth_map), ConfidenceLevels)
    /\ mesh = NoMesh
    /\ ShapeIdle
    /\ UnitIdle
    /\ DepthIdle
    /\ JobsIdle

NextMesh == CreateArchitecturalMesh \/ CreateHeightMapMesh

SpecMesh == InitMesh /\ [][NextMesh]_vars

SpecMeshWithConfidence == InitMeshWithConfidence /\ [][NextMesh]_vars

-----------------------------------------------------------------------------
(* Numeric fields.  A float array is a field of fixed-point values with    *)
(* denominator Q: a uint8 gray level g is g * Q, a depth of 0.5 is Q / 2.  *)

RECURSIVE SumSeq(_)
SumSeq(s) == IF Len(s) = 0 THEN 0 ELSE Head(s) + SumSeq(Tail(s))

\* F(1) + ... + F(n)
SumTo(n, F(_)) == SumSeq([ t \in 1 .. n |-> F(t) ])

\* f as a table of its values: a field is computed once, where it is built,
\* not again at every place that reads one of its cells
Computed(f) == IF f = f THEN f ELSE f

MapField(f, Op(_)) ==
    Computed([ i \in 1 .. FieldHeight(f) |->
                 [ j \in 1 .. FieldWidth(f) |-> Op(f[i][j]) ] ])

\* the field of height h and width w whose value at row i, column j
\* (0-based) is Op(i, j)
MakeField(h, w, Op(_, _)) ==
    Computed([ i \in 1 .. h |-> [ j \in 1 .. w |-> Op(i - 1, j - 1) ] ])

FieldMin(f) == CHOOSE v \in FieldValues(f) : \A u \in FieldValues(f) : v <= u
FieldMax(f) == CHOOSE v \in FieldValues(f) : \A u \in FieldValues(f) : v >= u
FieldSum(f) == SumTo(FieldHeight(f), LAMBDA i : SumTo(FieldWidth(f), LAMBDA j : f[i][j]))
CountCells(f, P(_)) == Cardinality({ c \in FieldCells(f) : P(f[c[1]][c[2]]) })

\* x / range in fixed point, for 0 <= x <= range
ScaleDiv(x, range) ==
    IF range >= Q * Q THEN x \div (range \div Q) ELSE (x * Q) \div range

\* _normalize, lines 335-342, given the minimum and the maximum
Rescale(array, min_val, max_val) ==
    IF max_val > min_val
    THEN MapField(array, LAMBDA v : ScaleDiv(v - min_val, max_val - min_val))
    ELSE IF max_val > Q THEN MapField(array, LAMBDA v : v \div 255)
    ELSE array

Normalize(array) == Rescale(array, FieldMin(array), FieldMax(array))

------------------------------------------------------------------------------
(* SpecNormalize: _normalize called on an array of floats.                  *)

MaxArrH == 2            \* rows of the arrays normalised
MaxArrW == 2            \* columns of the arrays normalised

\* the values of the arrays, in fixed point: negative, zero, inside (0, 1),
\* one, between 1 and 255, 255, above 255
ArrayValues == { 0 - 500, 0, 500, Q, 2 * Q, 255 * Q, 300 * Q }

Arrays ==
    UNION { [ 1 .. h -> [ 1 .. w -> ArrayValues ] ] : h \in 1 .. MaxArrH, w \in 1 .. MaxArrW }

InitNormalize ==
    /\ array_in \in Arrays
    /\ array_out = NoField
    /\ export_mesh = [ vertices |-> << >>, faces |-> << >> ]
    /\ export_call = NoCall
    /\ ShapeIdle
    /\ MeshIdle
    /\ DepthIdle
    /\ JobsIdle

\* lines 335-342
NormalizeCall ==
    /\ array_out = NoField
    /\ array_out' = Normalize(array_in)
    /\ UNCHANGED <<array_in, export_mesh, export_call,
                   shapeVars, meshVars, depthVars, jobVars>>

NextNormalize == NormalizeCall

SpecNormalize == InitNormalize /\ [][NextNormalize]_vars

\* C18: whatever the array, every value _normalize returns lies in [0, 1]
C18_NormalizeInUnitInterval ==
    array_out # NoField =>
        \A v \in FieldValues(array_out) : 0 <= v /\ v <= Q

------------------------------------------------------------------------------
(* SpecExport: export_glb called on a trimesh.Trimesh, exporter.py 18-96.   *)
(* A coordinate is a float: finite, NaN, or an infinity.                    *)

MaxVertices == 3        \* vertices of the meshes exported
MaxFaces == 2           \* faces of the meshes exported

Finite(v) == [ kind |-> "finite", value |-> v ]
NaN == [ kind |-> "nan", value |-> 0 ]
PosInf == [ kind |-> "inf", value |-> 1 ]
NegInf == [ kind |-> "inf", value |-> 0 - 1 ]

VerticesTried ==
    { << Finite(0), Finite(0), Finite(0) >>,
      << Finite(1), Finite(1), Finite(0) >>,
      << Finite(5000), Finite(0), Finite(0 - 5000) >>,
      << Finite(6000), Finite(0), Finite(0 - 6000) >>,
      << Finite(0), NaN, Finite(0) >>,
      << PosInf, Finite(0), Finite(0) >>,
      << Finite(0), Finite(0), NegInf >> }

ExportMeshes ==
    [ vertices : UNION { [ 1 .. n -> VerticesTried ] : n \in 0 .. MaxVertices },
      faces : UNION { [ 1 .. n -> { <<0, 1, 2>> } ] : n \in 0 .. MaxFaces } ]

Coordinates(vertices) == { vertices[i][k] : i \in 1 .. Len(vertices), k \in 1 .. 3 }

\* np.isnan(mesh.vertices).any(), np.isinf(mesh.vertices).any()
AnyNan(vertices) == \E x \in Coordinates(vertices) : x.kind = "nan"
AnyInf(vertices) == \E x \in Coordinates(vertices) : x.kind = "inf"

large_range == 10000

\* lines 84-86, for finite coordinates
VRange(vertices) ==
    LET values == { x.value : x \in Coordinates(vertices) }
        v_min == CHOOSE v \in values : \A u \in values : v <= u
        v_max == CHOOSE v \in values : \A u \in values : v >= u
    IN  v_max - v_min

\* a validation that also turns down a mesh of very large range
ValidateMesh_RangeFails(mesh_arg) ==
    IF Len(mesh_arg.vertices) = 0 \/ Len(mesh_arg.faces) = 0
        \/ AnyNan(mesh_arg.vertices) \/ AnyInf(mesh_arg.vertices)
    THEN [ valid |-> FALSE, warned |-> FALSE ]
    ELSE [ valid |-> VRange(mesh_arg.vertices) <= large_range,
           warned |-> VRange(mesh_arg.vertices) > large_range ]

\* _validate_mesh, lines 60-96: the verdict, and whether the range warning
\* was printed
ValidateMesh(mesh_arg) ==
    IF Len(mesh_arg.vertices) = 0 THEN [ valid |-> FALSE, warned |-> FALSE ]
    ELSE IF Len(mesh_arg.faces) = 0 THEN [ valid |-> FALSE, warned |-> FALSE ]
    ELSE IF AnyNan(mesh_arg.vertices) THEN [ valid |-> FALSE, warned |-> FALSE ]
    ELSE IF AnyInf(mesh_arg.vertices) THEN [ valid |-> FALSE, warned |-> FALSE ]
    ELSE [ valid |-> TRUE, warned |-> VRange(mesh_arg.vertices) > large_range ]

InitExport ==
    /\ export_mesh \in ExportMeshes
    /\ export_call = [ NoCall EXCEPT !.pc = "called" ]
    /\ array_in = NoField
    /\ array_out = NoField
    /\ ShapeIdle
    /\ MeshIdle
    /\ DepthIdle
    /\ JobsIdle

\* lines 33-36: validation fails, False is returned before mesh.export
ExportGlbRejected ==
    /\ export_call.pc = "called"
    /\ ~ValidateMesh(export_mesh).valid
    /\ export_call' = [ pc |-> "returned", validation |-> "failed",
                        warned |-> ValidateMesh(export_mesh).warned,
                        result |-> FALSE, written |-> FALSE ]
    /\ UNCHANGED <<export_mesh, array_in, array_out,
                   shapeVars, meshVars, depthVars, jobVars>>

\* what mesh.export leaves behind: a file with content, an empty file, no
\* file, or an exception with or without a file begun
ExportOutcomes == { "written", "empty", "missing", "raised", "raised_partial" }

\* lines 38-58: validation passes, mesh.export runs, the file is looked at
ExportGlbExports(outcome) ==
    /\ export_call.pc = "called"
    /\ ValidateMesh(export_mesh).valid
    /\ export_call' = [ pc |-> "returned", validation |-> "passed",
                        warned |-> ValidateMesh(export_mesh).warned,
                        result |-> (outcome = "written"),
                        written |-> (outcome \in { "written", "empty", "raised_partial" }) ]
    /\ UNCHANGED <<export_mesh, array_in, array_out,
                   shapeVars, meshVars, depthVars, jobVars>>

NextExport ==
    \/ ExportGlbRejected
    \/ \E outcome \in ExportOutcomes : ExportGlbExports(outcome)

SpecExport == InitExport /\ [][NextExport]_vars

\* a coordinate of the mesh that is NaN or infinite
HasNonFinite(vertices) ==
    \E i \in 1 .. Len(vertices), k \in 1 .. 3 : vertices[i][k].kind # "finite"

\* C20: validation fails exactly for a mesh with no vertices, no faces or a
\* NaN or infinite coordinate (a range above 10000 alone does not fail it),
\* and when it fails export_glb answers False and writes no file
C20_ValidationFailsExactlyWhenDegenerate ==
    export_call.pc = "returned" =>
        /\ export_call.validation = "failed" <=>
                \/ Len(export_mesh.vertices) = 0
                \/ Len(export_mesh.faces) = 0
                \/ HasNonFinite(export_mesh.vertices)
        /\ export_call.validation = "failed" =>
                ~export_call.result /\ ~export_call.written

\* a mesh with vertices and faces turned down for a NaN or infinite coordinate
C20_Witness ==
    /\ export_call.pc = "returned"
    /\ export_call.validation = "failed"
    /\ Len(export_mesh.vertices) > 0
    /\ Len(export_mesh.faces) > 0
    /\ ~export_call.result
    /\ ~export_call.written

-----------------------------------------------------------------------------
(* OpenCV filters.  GaussianBlur, blur: separable, border BORDER_REFLECT_101.*)
(* The Gaussian kernels are those of getGaussianKernel for sigma = 0       *)
(* (sigma = 0.3 * ((ksize - 1) * 0.5 - 1) + 0.8; [1 2 1] / 4 for ksize 3), *)
(* as integer weights over their sum.                                      *)

gaussian_3 == <<1, 2, 1>>
gaussian_11 == <<578, 1779, 4267, 7972, 11600, 13144, 11600, 7972, 4267, 1779, 578>>
gaussian_31 == <<58, 104, 178, 294, 466, 709, 1037, 1457, 1966, 2550, 3178, 3804,
                 4376, 4836, 5135, 5240, 5135, 4836, 4376, 3804, 3178, 2550, 1966,
                 1457, 1037, 709, 466, 294, 178, 104, 58>>
box_15 == [ t \in 1 .. 15 |-> 1 ]

\* borderInterpolate(p, n, BORDER_REFLECT_101)
Reflect101(p, n) ==
    IF n = 1 THEN 0
    ELSE LET period == 2 * (n - 1)
             q == p % period
         IN  IF q < n THEN q ELSE period - q

KernelSum(kernel) == SumTo(Len(kernel), LAMBDA t : kernel[t])

\* the weight with which entry k contributes to entry i of an axis of length n
FoldedWeight(kernel, n, i, k) ==
    SumTo(Len(kernel), LAMBDA t :
        IF Reflect101(i + t - 1 - (Len(kernel) \div 2), n) = k THEN kernel[t] ELSE 0)

\* the folded weights of an axis of length n, entry [i][k], 0-based
AxisWeights(kernel, n) ==
    Computed([ i \in 0 .. n - 1 |-> [ k \in 0 .. n - 1 |-> FoldedWeight(kernel, n, i, k) ] ])

WeighRows(f, wt, total) ==
    Computed([ i \in 1 .. FieldHeight(f) |-> [ j \in 1 .. FieldWidth(f) |->
        SumTo(FieldWidth(f), LAMBDA k : wt[j - 1][k - 1] * f[i][k]) \div total ] ])

WeighColumns(f, wt, total) ==
    Computed([ i \in 1 .. FieldHeight(f) |-> [ j \in 1 .. FieldWidth(f) |->
        SumTo(FieldHeight(f), LAMBDA k : wt[i - 1][k - 1] * f[k][j]) \div total ] ])

FilterRows(f, kernel) ==
    WeighRows(f, AxisWeights(kernel, FieldWidth(f)), KernelSum(kernel))

FilterColumns(f, kernel) ==
    WeighColumns(f, AxisWeights(kernel, FieldHeight(f)), KernelSum(kernel))

Filter2D(f, kernel) == FilterColumns(FilterRows(f, kernel), kernel)

GaussianBlur_3(f) == Filter2D(f, gaussian_3)
GaussianBlur_11(f) == Filter2D(f, gaussian_11)
GaussianBlur_31(f) == Filter2D(f, gaussian_31)
Blur_15(f) == Filter2D(f, box_15)

-----------------------------------------------------------------------------
(* The image.  cv2.imread gives None for a file that is no image, else the *)
(* pixels.  Results of library calls that are functions of the pixels but  *)
(* are not computed here are carried with the image:                       *)
(*   edges            cv2.Canny(img_gray, 50, 150): 0 or 255 per pixel     *)
(*   lines            <<horizontal_lines, vertical_lines>> counted over    *)
(*                    cv2.HoughLinesP(edges, ...)                          *)
(*   avg_saturation   np.mean of the S channel of the HSV image            *)
(* so that two calls on the same image see the same results.               *)

MaxImgH == 4            \* images of 1, 2 and MaxImgH rows
MaxImgW == 4            \* and 1, 2 and MaxImgW columns

\* gray levels tried: dark (< 100), wall gray (100 .. 180), light (> 200)
GrayLevels == {40, 150, 230}
\* readings tried, <<horizontal_lines, vertical_lines>> and mean
\* saturation: no line; enough of both for a room; many horizontal.  The
\* saturation is compared (with 100) only when there are fewer than 3
\* horizontal lines.
ReadingsTried == { << <<0, 0>>, 40 >>, << <<0, 0>>, 120 >>,
                   << <<6, 4>>, 40 >>, << <<9, 0>>, 40 >> }

\* the gray images tried, of at most max_h rows and max_w columns
GrayImages(max_h, max_w) ==
    UNION { BlockFields(h, w, GrayLevels) : h \in {1, 2, max_h}, w \in {1, 2, max_w} }

InField(f, i, j) == i >= 1 /\ i <= FieldHeight(f) /\ j >= 1 /\ j <= FieldWidth(f)

Neighbours8(f, i, j) ==
    { n \in ((i - 1) .. (i + 1)) \X ((j - 1) .. (j + 1)) :
        InField(f, n[1], n[2]) /\ n # <<i, j>> }

\* Canny marks pixels along steps of intensity and nothing in a flat image;
\* the steps between two gray levels tried are all above the high threshold.
\* Which side of a step it marks is left open.
StepAll(g) == MakeField(FieldHeight(g), FieldWidth(g), LAMBDA i, j :
    IF \E n \in Neighbours8(g, i + 1, j + 1) : g[n[1]][n[2]] # g[i + 1][j + 1]
    THEN 255 ELSE 0)
StepBright(g) == MakeField(FieldHeight(g), FieldWidth(g), LAMBDA i, j :
    IF \E n \in Neighbours8(g, i + 1, j + 1) : g[n[1]][n[2]] < g[i + 1][j + 1]
    THEN 255 ELSE 0)
StepDark(g) == MakeField(FieldHeight(g), FieldWidth(g), LAMBDA i, j :
    IF \E n \in Neighbours8(g, i + 1, j + 1) : g[n[1]][n[2]] > g[i + 1][j + 1]
    THEN 255 ELSE 0)
CannyOutcomes(g) == { StepAll(g), StepBright(g), StepDark(g) }

HasEdges(edges) == 255 \in FieldValues(edges)

\* HoughLinesP returns None when there is no edge pixel
ReadingOutcomes(edges) ==
    IF HasEdges(edges) THEN ReadingsTried
    ELSE { r \in ReadingsTried : r[1] = <<0, 0>> }

ImagesOf(g) ==
    UNION { { [ decodable |-> TRUE, gray |-> g, edges |-> e, lines |-> r[1],
                avg_saturation |-> r[2] ] : r \in ReadingOutcomes(e) }
            : e \in CannyOutcomes(g) }

Images(max_h, max_w) == UNION { ImagesOf(g) : g \in GrayImages(max_h, max_w) }

StripWidth == 48        \* columns of the one-row image with a faint step

\* one row, the first two pixels a little darker than the rest: the step is
\* below Canny's thresholds (no edge, no line), past the reach of the 31-tap
\* blur the pixels are all alike
WeakStepImage ==
    [ decodable |-> TRUE,
      gray |-> << [ j \in 1 .. StripWidth |-> IF j <= 2 THEN 148 ELSE 150 ] >>,
      edges |-> << [ j \in 1 .. StripWidth |-> 0 ] >>,
      lines |-> <<0, 0>>,
      avg_saturation |-> 40 ]

\* img_gray.astype(np.float32)
AsFloat(g) == MapField(g, LAMBDA v : v * Q)

-----------------------------------------------------------------------------
(* _detect_scene_type, lines 131-210 *)

\* np.mean over rows r0 .. r1 - 1 and columns c0 .. c1 - 1 (0-based), in
\* fixed point; the slice is not empty
RegionMean(g, r0, r1, c0, c1) ==
    (Q * SumTo(r1 - r0, LAMBDA i : SumTo(c1 - c0, LAMBDA j : g[r0 + i][c0 + j])))
        \div ((r1 - r0) * (c1 - c0))

\* center_contrast > 30.  With height // 4 = 0 or width // 4 = 0 a border
\* slice is empty, its mean is NaN, and no comparison with NaN is true.
CenterContrastAbove(g, threshold) ==
    LET height == FieldHeight(g)
        width == FieldWidth(g)
        t == height \div 4
        b == (3 * height) \div 4
        l == width \div 4
        r == (3 * width) \div 4
    IN  IF t = 0 \/ l = 0 THEN FALSE
        ELSE LET center_brightness == RegionMean(g, t, b, l, r)
                 edge_sum == RegionMean(g, 0, t, 0, width)
                             + RegionMean(g, b, height, 0, width)
                             + RegionMean(g, 0, height, 0, l)
                             + RegionMean(g, 0, height, r, width)
             IN  4 * center_brightness - edge_sum > 4 * threshold * Q

\* the number of floor-plan conditions that hold
ConditionsMet(img) ==
    LET g == img.gray
        total_pixels == FieldSize(g)
        sum == FieldSum(g)
        sum_sq == FieldSum(MapField(g, LAMBDA v : v * v))
        dark_pixels == CountCells(g, LAMBDA v : v < 100)
        light_pixels == CountCells(g, LAMBDA v : v > 200)
        is_mostly_white == sum > 180 * total_pixels
        is_high_contrast ==
            total_pixels * sum_sq - sum * sum > 40 * 40 * total_pixels * total_pixels
        has_significant_dark_lines ==
            100 * dark_pixels > 3 * total_pixels /\ 10 * dark_pixels < 4 * total_pixels
        has_significant_white_space == 10 * light_pixels > 4 * total_pixels
        has_many_straight_lines == img.lines[1] + img.lines[2] > 8
        one(cond) == IF cond THEN 1 ELSE 0
    IN  one(is_mostly_white /\ has_significant_white_space)
        + one(is_high_contrast)
        + one(has_significant_dark_lines)
        + one(has_many_straight_lines)

\* _detect_scene_type with the indoor test ahead of the floor-plan test
DetectSceneType_IndoorFirst(img) ==
    IF img.lines[1] > 5 /\ img.lines[2] > 3 THEN "indoor_room"
    ELSE IF ConditionsMet(img) >= 3 THEN "floor_plan"
    ELSE IF img.avg_saturation > 100 /\ img.lines[1] < 3 THEN "outdoor_landscape"
    ELSE IF CenterContrastAbove(img.gray, 30) THEN "portrait"
    ELSE "general"

DetectSceneType(img) ==
    LET horizontal_lines == img.lines[1]
        vertical_lines == img.lines[2]
    IN  IF ConditionsMet(img) >= 3 THEN "floor_plan"
        ELSE IF horizontal_lines > 5 /\ vertical_lines > 3 THEN "indoor_room"
        ELSE IF img.avg_saturation > 100 /\ horizontal_lines < 3 THEN "outdoor_landscape"
        ELSE IF CenterContrastAbove(img.gray, 30) THEN "portrait"
        ELSE "general"

-----------------------------------------------------------------------------
(* _floorplan_depth, lines 212-272.                                         *)
(* Masks are fields of booleans.  cv2.erode takes the minimum and          *)
(* cv2.dilate the maximum over the kernel placed with its anchor           *)
(* (ksize // 2) on the pixel; pixels outside the image do not count.       *)

KernelOffsets(ksize) ==
    ((0 - ksize \div 2) .. (ksize - 1 - ksize \div 2))
        \X ((0 - ksize \div 2) .. (ksize - 1 - ksize \div 2))

Erode1(m, ksize) ==
    Computed([ i \in 1 .. FieldHeight(m) |-> [ j \in 1 .. FieldWidth(m) |->
        \A d \in KernelOffsets(ksize) :
            InField(m, i + d[1], j + d[2]) => m[i + d[1]][j + d[2]] ] ])

Dilate1(m, ksize) ==
    Computed([ i \in 1 .. FieldHeight(m) |-> [ j \in 1 .. FieldWidth(m) |->
        \E d \in KernelOffsets(ksize) :
            InField(m, i + d[1], j + d[2]) /\ m[i + d[1]][j + d[2]] ] ])

RECURSIVE Erode(_, _, _)
Erode(m, ksize, iterations) ==
    IF iterations = 0 THEN m ELSE Erode(Erode1(m, ksize), ksize, iterations - 1)

RECURSIVE Dilate(_, _, _)
Dilate(m, ksize, iterations) ==
    IF iterations = 0 THEN m ELSE Dilate(Dilate1(m, ksize), ksize, iterations - 1)

MorphOpen(m, ksize) == Dilate1(Erode1(m, ksize), ksize)
MorphClose(m, ksize) == Erode1(Dilate1(m, ksize), ksize)

\* the 8-connected component of the set pixels of m around the pixels grown
RECURSIVE GrowComponent(_, _)
GrowComponent(m, grown) ==
    LET more == grown \cup
                { n \in FieldCells(m) :
                    /\ m[n[1]][n[2]]
                    /\ \E c \in grown : n \in Neighbours8(m, c[1], c[2]) }
    IN  IF more = grown THEN grown ELSE GrowComponent(m, more)

ComponentArea(m, i, j) == Cardinality(GrowComponent(m, { <<i, j>> }))

\* lines 222-223: the dark elements, cv2.threshold(..., 180, 255, THRESH_BINARY)
\* inverted
BinaryInv(img_gray) == MapField(img_gray, LAMBDA v : ~(v > 180))

\* lines 244-253: the components of more than 0.1% of the image area
AreaFilter(eroded) ==
    MakeField(FieldHeight(eroded), FieldWidth(eroded), LAMBDA i, j :
        /\ eroded[i + 1][j + 1]
        /\ 1000 * ComponentArea(eroded, i + 1, j + 1) > FieldSize(eroded))

\* wall_mask: open 2 x 2, close 3 x 3, dilate and erode 4 x 4 twice, filter
WallMask(img_gray) ==
    AreaFilter(Erode(Dilate(MorphClose(MorphOpen(BinaryInv(img_gray), 2), 3), 4, 2), 4, 2))

FloorplanDepth(img_gray) ==
    GaussianBlur_3(MapField(WallMask(img_gray), LAMBDA wall : IF wall THEN Q ELSE 0))

-----------------------------------------------------------------------------
(* The scene heuristics, lines 274-333, and the edge cue, lines 72-74.     *)

\* np.linspace(first, last, n)[i]
Linspace(first, last, n, i) ==
    IF n = 1 THEN first ELSE first + ((last - first) * i) \div (n - 1)

\* 85% of a column that falls from first to last, 15% of the cue
GradientWith(first, last, cue) ==
    MakeField(FieldHeight(cue), FieldWidth(cue), LAMBDA i, j :
        (Linspace(first, last, FieldHeight(cue), i) * 85 + cue[i + 1][j + 1] * 15) \div 100)

Inverted(f) == MapField(f, LAMBDA v : Q - v)

IndoorDepth(img_gray) == GradientWith(700, 300, Inverted(Normalize(AsFloat(img_gray))))

\* variance = blur(gray ^ 2) - blur(gray) ^ 2 over 15 x 15 windows; the
\* division of the square by Q is split over its factors (40 * 25 = Q)
Variance(mean, mean_sq) ==
    MakeField(FieldHeight(mean), FieldWidth(mean), LAMBDA i, j :
        mean_sq[i + 1][j + 1]
            - (mean[i + 1][j + 1] \div 40) * (mean[i + 1][j + 1] \div 25))

LocalVariance(img_gray) ==
    Variance(Blur_15(AsFloat(img_gray)),
             Blur_15(MapField(img_gray, LAMBDA v : v * v * Q)))

LandscapeDepth(img_gray) == GradientWith(700, 300, Normalize(LocalVariance(img_gray)))

\* the integer square root
RECURSIVE ISqrtBetween(_, _, _)
ISqrtBetween(n, lo, hi) ==
    IF lo >= hi THEN lo
    ELSE LET mid == (lo + hi + 1) \div 2
         IN  IF mid * mid <= n THEN ISqrtBetween(n, mid, hi)
             ELSE ISqrtBetween(n, lo, mid - 1)
ISqrt(n) == ISqrtBetween(n, 0, 40000)

\* np.sqrt((x - width / 2) ** 2 + (y - height / 2) ** 2)
DistFromCenter(height, width) ==
    MakeField(height, width, LAMBDA i, j :
        ISqrt(((2 * j - width) * (2 * j - width) + (2 * i - height) * (2 * i - height))
              * (Q \div 2) * (Q \div 2)))

\* lines 314-320: 0.4 + (1 - radial_dist) * 0.2, then 90% of it and 10% of
\* the brightness
CenterAndBrightness(radial_dist, brightness) ==
    MakeField(FieldHeight(brightness), FieldWidth(brightness), LAMBDA i, j :
        ((400 + ((Q - radial_dist[i + 1][j + 1]) * 2) \div 10) * 9
         + brightness[i + 1][j + 1]) \div 10)

PortraitDepth(img_gray) ==
    CenterAndBrightness(
        Normalize(DistFromCenter(FieldHeight(img_gray), FieldWidth(img_gray))),
        Normalize(AsFloat(img_gray)))

\* lines 326-332: 80% of a column that falls from 0.6 to 0.4, 20% brightness
GradientAndBrightness(brightness) ==
    MakeField(FieldHeight(brightness), FieldWidth(brightness), LAMBDA i, j :
        (Linspace(600, 400, FieldHeight(brightness), i) * 8
         + brightness[i + 1][j + 1] * 2) \div 10)

GeneralDepth(img_gray) == GradientAndBrightness(Normalize(AsFloat(img_gray)))

\* cv2.distanceTransform(255 - edges, cv2.DIST_L2, 5): the 5 x 5 chamfer
\* distance (steps 1, 1.4, 2.1969) to the nearest edge pixel
Chamfer(dx, dy) ==
    LET long == Max2(Abs(dx), Abs(dy))
        short == Min2(Abs(dx), Abs(dy))
    IN  IF long >= 2 * short
        THEN 1000 * (long - 2 * short) + 2197 * short
        ELSE 2197 * (long - short) + 1400 * (2 * short - long)

\* without an edge pixel the transform saturates: every pixel gets the
\* library's largest distance
no_edge_distance == 8192

NearestEdge(edge_cells, i, j) ==
    LET ds == { Chamfer(c[2] - j, c[1] - i) : c \in edge_cells }
    IN  CHOOSE d \in ds : \A e \in ds : d <= e

DistanceFrom(edges, edge_cells) ==
    MakeField(FieldHeight(edges), FieldWidth(edges), LAMBDA i, j :
        IF edge_cells = {} THEN no_edge_distance * Q
        ELSE NearestEdge(edge_cells, i + 1, j + 1))

DistanceTransform(edges) ==
    DistanceFrom(edges, { c \in FieldCells(edges) : edges[c[1]][c[2]] = 255 })

\* lines 72-79 (and 82-87, 90-95, 98-103): blend with the edge cue, smooth,
\* normalise
Blend(scene_depth, edge_depth) ==
    MakeField(FieldHeight(scene_depth), FieldWidth(scene_depth), LAMBDA i, j :
        (scene_depth[i + 1][j + 1] * 8 + edge_depth[i + 1][j + 1] * 2) \div 10)

BlendWithEdges(scene_depth, edges) ==
    Normalize(GaussianBlur_31(Blend(scene_depth, Normalize(DistanceTransform(edges)))))

SceneDepth(scene, img_gray) ==
    CASE scene = "indoor_room" -> IndoorDepth(img_gray)
      [] scene = "outdoor_landscape" -> LandscapeDepth(img_gray)
      [] scene = "portrait" -> PortraitDepth(img_gray)
      [] OTHER -> GeneralDepth(img_gray)

\* line 113: depth_map = 0.2 + depth_map * 0.6
ModerateRange(depth) == MapField(depth, LAMBDA v : 200 + (v * 6) \div 10)

\* line 110: np.ones_like(depth_map) * 0.95
FloorPlanConfidence(depth) == MapField(depth, LAMBDA v : 950)

\* lines 115-116: 1.0 - normalize(edges) * 0.3, smoothed
EdgeConfidence(edges) ==
    GaussianBlur_11(MapField(Normalize(AsFloat(edges)), LAMBDA v : Q - (v * 3) \div 10))

-----------------------------------------------------------------------------
(* estimate_depth, lines 25-129, step by step.  The images tried are within *)
(* max_dim, so lines 48-54 do not resize them (SpecShape covers the resize).*)

\* the names line 119 deletes, in its order
deleted_names == <<"edges", "dist", "edge_depth", "img_gray", "img_rgb", "img">>

InitDepth ==
    /\ d_pc = "called"
    /\ image \in Images(MaxImgH, MaxImgW) \cup { WeakStepImage, NotAnImage }
    /\ scene_type = "none"
    /\ locals = {}
    /\ error = "none"
    /\ calls = <<>>
    /\ MeshIdle
    /\ ShapeIdle
    /\ UnitIdle
    /\ JobsIdle

\* lines 41-43 and 127-129: imread gives None, ValueError is raised and
\* passed on to the caller
ImreadFails ==
    /\ d_pc = "called"
    /\ ~image.decodable
    /\ error' = "ValueError"
    /\ d_pc' = "raised"
    /\ UNCHANGED <<image, scene_type, locals, depth_map, confidence_map,
                   m_pc, mesh, calls, shapeVars, unitVars, jobVars>>

\* lines 41-57: the image and its two conversions
LoadImage ==
    /\ d_pc = "called"
    /\ image.decodable
    /\ ~NeedsResize(FieldHeight(image.gray), FieldWidth(image.gray))
    /\ locals' = locals \cup { "img", "img_gray", "img_rgb" }
    /\ d_pc' = "loaded"
    /\ UNCHANGED <<image, scene_type, error, depth_map, confidence_map,
                   m_pc, mesh, calls, shapeVars, unitVars, jobVars>>

\* line 60
DetectScene ==
    /\ d_pc = "loaded"
    /\ scene_type' = DetectSceneType(image)
    /\ calls' = Append(calls, <<image, scene_type'>>)
    /\ locals' = locals \cup { "scene_type" }
    /\ d_pc' = "classified"
    /\ UNCHANGED <<image, error, depth_map, confidence_map,
                   m_pc, mesh, shapeVars, unitVars, jobVars>>

\* lines 64-68: the floor-plan branch binds depth_map only
FloorPlanCue ==
    /\ d_pc = "classified"
    /\ scene_type = "floor_plan"
    /\ depth_map' = Normalize(FloorplanDepth(image.gray))
    /\ locals' = locals \cup { "depth_map" }
    /\ d_pc' = "estimated"
    /\ UNCHANGED <<image, scene_type, error, confidence_map,
                   m_pc, mesh, calls, shapeVars, unitVars, jobVars>>

\* the four other branches bind edges, dist and edge_depth as well
PhotoCue(scene) ==
    /\ d_pc = "classified"
    /\ depth_map' = BlendWithEdges(SceneDepth(scene, image.gray), image.edges)
    /\ locals' = locals \cup { "depth_map", "edges", "dist", "edge_depth" }
    /\ d_pc' = "estimated"
    /\ UNCHANGED <<image, scene_type, error, confidence_map,
                   m_pc, mesh, calls, shapeVars, unitVars, jobVars>>

\* lines 69-79
IndoorRoomCue ==
    /\ scene_type = "indoor_room"
    /\ PhotoCue("indoor_room")
\* lines 80-87
LandscapeCue ==
    /\ scene_type = "outdoor_landscape"
    /\ PhotoCue("outdoor_landscape")
\* lines 88-95
PortraitCue ==
    /\ scene_type = "portrait"
    /\ PhotoCue("portrait")
\* lines 96-103
GeneralCue ==
    /\ scene_type = "general"
    /\ PhotoCue("general")

\* lines 106-110: full range, confidence 0.95
FullRange ==
    /\ d_pc = "estimated"
    /\ scene_type = "floor_plan"
    /\ confidence_map' = FloorPlanConfidence(depth_map)
    /\ locals' = locals \cup { "confidence_map" }
    /\ d_pc' = "ranged"
    /\ UNCHANGED <<image, scene_type, error, depth_map,
                   m_pc, mesh, calls, shapeVars, unitVars, jobVars>>

\* lines 111-116: moderate range, confidence from the edges
PhotoRange ==
    /\ d_pc = "estimated"
    /\ scene_type # "floor_plan"
    /\ depth_map' = ModerateRange(depth_map)
    /\ confidence_map' = EdgeConfidence(image.edges)
    /\ locals' = locals \cup { "confidence_map" }
    /\ d_pc' = "ranged"
    /\ UNCHANGED <<image, scene_type, error, m_pc, mesh, calls, shapeVars, unitVars, jobVars>>

\* line 119: del of a name that is bound
AllBound == \A k \in 1 .. Len(deleted_names) : deleted_names[k] \in locals

\* lines 119-125: the names are deleted and the two fields returned
CleanUpReturns ==
    /\ d_pc = "ranged"
    /\ AllBound
    /\ locals' = locals \ { deleted_names[k] : k \in 1 .. Len(deleted_names) }
    /\ d_pc' = "returned"
    /\ UNCHANGED <<image, scene_type, error, depth_map, confidence_map,
                   m_pc, mesh, calls, shapeVars, unitVars, jobVars>>

\* lines 119 and 127-129: del of a name that was never bound raises
\* UnboundLocalError, which is passed on; nothing is returned
CleanUpRaises ==
    /\ d_pc = "ranged"
    /\ ~AllBound
    /\ error' = "UnboundLocalError"
    /\ d_pc' = "raised"
    /\ UNCHANGED <<image, scene_type, locals, depth_map, confidence_map,
                   m_pc, mesh, calls, shapeVars, unitVars, jobVars>>

\* lines 64-103 and 127-129: the cue computations are library calls (Canny,
\* distanceTransform, GaussianBlur, morphology) made directly in the body of
\* the one try block; a cv2.error from any of them reaches the handler at
\* line 127, which prints and re-raises.  No cue has a handler of its own.
CueRaises ==
    /\ d_pc = "classified"
    /\ error' = "cv2.error"
    /\ d_pc' = "raised"
    /\ UNCHANGED <<image, scene_type, locals, depth_map, confidence_map,
                   m_pc, mesh, calls, shapeVars, unitVars, jobVars>>

NextDepth ==
    \/ ImreadFails
    \/ LoadImage
    \/ DetectScene
    \/ FloorPlanCue
    \/ IndoorRoomCue
    \/ LandscapeCue
    \/ PortraitCue
    \/ GeneralCue
    \/ CueRaises
    \/ FullRange
    \/ PhotoRange
    \/ CleanUpReturns
    \/ CleanUpRaises

SpecDepth == InitDepth /\ [][NextDepth]_vars

\* what the caller of estimate_depth receives
Returned == d_pc = "returned"
Raised == d_pc = "raised"

-----------------------------------------------------------------------------
(* Claims checked under SpecDepth *)

InUnitInterval(f) == \A v \in FieldValues(f) : 0 <= v /\ v <= Q
FieldRange(f) == FieldMax(f) - FieldMin(f)
SameShape(f, g) == FieldHeight(f) = FieldHeight(g) /\ FieldWidth(f) = FieldWidth(g)

\* C1: the depth field estimate_depth returns has every value in [0,1] and
\* max - min >= 0.01 (a gradient replaces a flat field)
C1_DepthInRangeAndNotFlat ==
    Returned => InUnitInterval(depth_map) /\ 100 * FieldRange(depth_map) >= Q

\* C2: for a floor_plan scene estimate_depth ends by returning, never by
\* raising, and returns a depth field within [0,1] and confidence 0.95 at
\* every pixel
C2_FloorPlanReturns ==
    (scene_type = "floor_plan" /\ (Returned \/ Raised)) =>
        /\ Returned
        /\ InUnitInterval(depth_map)
        /\ \A v \in FieldValues(confidence_map) : 100 * v = 95 * Q

\* C3: for a decodable image estimate_depth ends by returning a confidence
\* field of the shape of the depth field with every value in [0,1]
C3_ConfidenceInRange ==
    (image.decodable /\ (Returned \/ Raised)) =>
        /\ Returned
        /\ SameShape(confidence_map, depth_map)
        /\ InUnitInterval(confidence_map)

\* C11: for a path that is missing or no decodable image estimate_depth ends
\* by raising LoadError, with no output produced: no field, no name bound,
\* no file written
C11_UndecodableRaisesLoadError ==
    (~image.decodable /\ (Returned \/ Raised)) =>
        /\ Raised
        /\ error = "LoadError"
        /\ depth_map = NoField
        /\ confidence_map = NoField
        /\ locals = {}
        /\ files = {}

\* the classifier has answered for the image
Classified == d_pc \in { "classified", "estimated", "ranged", "returned", "raised" }
                  /\ image.decodable

\* the four floor-plan conditions on the pixels and the line counts
MostlyWhiteBackground(img) ==
    /\ FieldSum(img.gray) > 180 * FieldSize(img.gray)
    /\ 10 * CountCells(img.gray, LAMBDA v : v > 200) > 4 * FieldSize(img.gray)
HighContrast(img) ==
    LET n == FieldSize(img.gray)
        sum == FieldSum(img.gray)
        squares == SumSeq([ k \in 1 .. n |->
                     LET v == img.gray[((k - 1) \div FieldWidth(img.gray)) + 1]
                                       [((k - 1) % FieldWidth(img.gray)) + 1]
                     IN  v * v ])
    IN  n * squares - sum * sum > 40 * 40 * n * n
DarkRatioBetween(img) ==
    LET dark == CountCells(img.gray, LAMBDA v : v < 100)
    IN  100 * dark > 3 * FieldSize(img.gray) /\ 10 * dark < 4 * FieldSize(img.gray)
ManyLines(img) == img.lines[1] + img.lines[2] > 8

AtLeastThreeOfFour(a, b, c, e) ==
    \/ a /\ b /\ c
    \/ a /\ b /\ e
    \/ a /\ c /\ e
    \/ b /\ c /\ e

\* C12: the classifier answers floor_plan exactly when at least 3 of the 4
\* conditions hold (white background with mean > 180 and light ratio > 0.4,
\* std > 40, dark ratio strictly between 0.03 and 0.4, more than 8 lines),
\* whatever the indoor, landscape and portrait tests would say
C12_FloorPlanIffThreeOfFour ==
    Classified =>
        (scene_type = "floor_plan" <=>
            AtLeastThreeOfFour(MostlyWhiteBackground(image), HighContrast(image),
                               DarkRatioBetween(image), ManyLines(image)))

\* a floor plan whose line counts also pass the indoor test
C12_Witness ==
    /\ Classified
    /\ scene_type = "floor_plan"
    /\ image.lines[1] > 5 /\ image.lines[2] > 3

\* the image has a centre region and four border regions (no empty slice)
------------------------------------------------------------------------------
(* SpecClassify: _detect_scene_type called again and again on the one       *)
(* DepthEstimator of the process (app.py line 41).  The class has no        *)
(* attributes (lines 18-23) and the method binds local names only; Canny    *)
(* and HoughLinesP keep nothing between calls, so the readings of an image  *)
(* belong to its pixels.                                                    *)

MaxCalls == 3           \* calls of _detect_scene_type in one behaviour

\* the images classified between two calls on the image under test
OtherImages == ImagesOf(<< <<230>> >>)

InitClassify ==
    /\ d_pc = "idle"
    /\ image \in Images(MaxImgH, MaxImgW)
    /\ scene_type = "none"
    /\ locals = {}
    /\ error = "none"
    /\ calls = <<>>
    /\ MeshIdle
    /\ ShapeIdle
    /\ UnitIdle
    /\ JobsIdle

\* a verdict that lags one call behind when the image changes
Classify_KeepsLast(img) ==
    /\ Len(calls) < MaxCalls
    /\ calls' = Append(calls, <<img,
            IF calls # <<>> /\ calls[Len(calls)][1] # img
            THEN calls[Len(calls)][2] ELSE DetectSceneType(img)>>)
    /\ UNCHANGED <<d_pc, image, scene_type, locals, error, shapeVars, unitVars, meshVars, jobVars>>

\* lines 131-210: one call, its verdict computed from the arguments
Classify(img) ==
    /\ Len(calls) < MaxCalls
    /\ calls' = Append(calls, <<img, DetectSceneType(img)>>)
    /\ UNCHANGED <<d_pc, image, scene_type, locals, error, shapeVars, unitVars, meshVars, jobVars>>

NextClassify == \E img \in OtherImages \cup { image } : Classify(img)

SpecClassify == InitClassify /\ [][NextClassify]_vars

------------------------------------------------------------------------------
\* every pixel of the image has the same gray value
Uniform(g) == Cardinality(FieldValues(g)) = 1

RowsConstant(f) ==
    \A i \in 1 .. FieldHeight(f), j \in 1 .. FieldWidth(f) : f[i][j] = f[i][1]

MonotoneDown(f) ==
    \/ \A i \in 1 .. FieldHeight(f) - 1 : f[i + 1][1] <= f[i][1]
    \/ \A i \in 1 .. FieldHeight(f) - 1 : f[i + 1][1] >= f[i][1]

\* C21: for a uniform image the depth field returned has range >= 0.01, is
\* constant along each row and monotone from the top row to the bottom row
C21_UniformImageGivesGradient ==
    (Returned /\ Uniform(image.gray)) =>
        /\ 100 * FieldRange(depth_map) >= Q
        /\ RowsConstant(depth_map)
        /\ MonotoneDown(depth_map)

\* C24: the path create_mesh_from_depth takes for the depth field that
\* estimate_depth produced agrees with the scene type: architectural for a
\* floor_plan, height map for every other scene type
C24_PathAgreesWithSceneType ==
    d_pc \in { "ranged", "returned" } =>
        IsFloorPlanOutcomes(depth_map) =
            IF scene_type = "floor_plan" THEN { TRUE } ELSE { FALSE }

\* a cue computation of this call has raised
CueFailed == error = "cv2.error"

\* C15: when a depth cue computation raises, estimate_depth does not raise:
\* the call goes on and hands back a depth field and a confidence field
C15_CueFailureStillReturns ==
    CueFailed => /\ ~Raised
                 /\ (Returned => depth_map # NoField /\ confidence_map # NoField)

HasRegions(g) == FieldHeight(g) \div 4 > 0 /\ FieldWidth(g) \div 4 > 0

\* 4 * (mean of the centre region - mean of the four border means)
CenterMinusBorder4(g) ==
    LET height == FieldHeight(g)
        width == FieldWidth(g)
        t == height \div 4
        b == (3 * height) \div 4
        l == width \div 4
        r == (3 * width) \div 4
    IN  4 * RegionMean(g, t, b, l, r)
        - (RegionMean(g, 0, t, 0, width) + RegionMean(g, b, height, 0, width)
           + RegionMean(g, 0, height, 0, l) + RegionMean(g, 0, height, r, width))

\* C13: an image that is no floor plan, indoor room or landscape is a
\* portrait when its centre is brighter or darker than its border by more
\* than 30 in the mean, and general otherwise
C13_PortraitIffCentreDiffers ==
    (Classified /\ HasRegions(image.gray)
        /\ scene_type \notin { "floor_plan", "indoor_room", "outdoor_landscape" }) =>
        (scene_type = "portrait" <=> Abs(CenterMinusBorder4(image.gray)) > 4 * 30 * Q)

-----------------------------------------------------------------------------
(* Claims checked under SpecMesh *)

\* C4: create_mesh_from_depth never returns a mesh with fewer than 3
\* vertices or fewer than 1 face, whatever the depth field (height >= 1,
\* width >= 1) and the geometry path.
C4_MeshNeverEmpty ==
    m_pc = "returned" =>
        /\ Len(mesh.returned.vertices) >= 3
        /\ Len(mesh.returned.faces) >= 1

\* C5: in both paths every index of every emitted face is >= 0 and strictly
\* less than the number of emitted vertices (and so it is in the mesh
\* returned after merging).
C5_FaceIndicesInBounds ==
    m_pc \in {"returned", "raised"} =>
        /\ IndicesInBounds(mesh.faces, Len(mesh.vertices))
        /\ IndicesInBounds(mesh.returned.faces, Len(mesh.returned.vertices))

\* C5 witness: an architectural mesh with the panels of two retained
\* contours and the floor.
C5_Witness ==
    /\ m_pc = "returned"
    /\ mesh.path = "architectural"
    /\ mesh.n_wall_vertices >= 24
    /\ Len(mesh.faces) >= 14

\* the grid the height-map path triangulates: the depth map after the stride
GridOf(d) ==
    LET factor == DownsampleFactor(FieldWidth(d), FieldHeight(d))
    IN  IF factor > 1 THEN Strided(d, factor) ELSE d

FaceSet(faces) == { faces[k] : k \in 1 .. Len(faces) }

\* the sides of a triangle in the direction it goes round them
DirectedEdges(f) == { <<f[1], f[2]>>, <<f[2], f[3]>>, <<f[3], f[1]>> }

\* C22: on a grid of height >= 2 and width >= 2 the height-map path emits
\* 2 * (height - 1) * (width - 1) faces: for every cell the triangles
\* (v0, v1, v2) and (v1, v3, v2), each of three distinct indices, no side
\* gone along in the same direction by two triangles
C22_TwoTrianglesPerCell ==
    (m_pc \in { "returned", "raised" } /\ mesh.path = "heightmap"
        /\ FieldHeight(GridOf(depth_map)) >= 2 /\ FieldWidth(GridOf(depth_map)) >= 2) =>
        LET height == FieldHeight(GridOf(depth_map))
            width == FieldWidth(GridOf(depth_map))
        IN  /\ Len(mesh.faces) = 2 * (height - 1) * (width - 1)
            /\ Cardinality(FaceSet(mesh.faces)) = Len(mesh.faces)
            /\ \A i \in 0 .. height - 2, j \in 0 .. width - 2 :
                    /\ <<i * width + j, i * width + j + 1, (i + 1) * width + j>>
                            \in FaceSet(mesh.faces)
                    /\ <<i * width + j + 1, (i + 1) * width + j + 1, (i + 1) * width + j>>
                            \in FaceSet(mesh.faces)
            /\ \A f \in FaceSet(mesh.faces) : Cardinality({ f[1], f[2], f[3] }) = 3
            /\ \A f, g \in FaceSet(mesh.faces) :
                    f # g => DirectedEdges(f) \cap DirectedEdges(g) = {}

\* C22 witness: a 3 x 3 grid triangulated into 8 faces
C22_Witness ==
    /\ m_pc = "returned"
    /\ mesh.path = "heightmap"
    /\ FieldHeight(depth_map) = 3
    /\ FieldWidth(depth_map) = 3
    /\ Len(mesh.faces) = 8

\* the simplified segments of the contours that are not skipped
SegmentCount(contours) ==
    SumTo(Len(contours), LAMBDA c :
        IF contours[c].raw_len < 4 \/ Len(contours[c].approx) < 3 THEN 0
        ELSE Len(contours[c].approx))

WithinUnit(frac) == 0 - frac[2] <= frac[1] /\ frac[1] <= frac[2]

\* C23: the architectural mesh, as emitted, has 4 vertices and 2 faces per
\* simplified segment of each contour that is not skipped (fewer than 4 raw
\* points or fewer than 3 simplified points: skipped), plus 4 vertices and 2
\* faces for the floor; every wall vertex has y 0 or 2.5 and x, z in [-1, 1]
C23_PanelsPerSegment ==
    (m_pc \in { "returned", "raised" } /\ mesh.path = "architectural") =>
        LET segments == SegmentCount(mesh.contours)
        IN  /\ Len(mesh.vertices) = 4 * segments + 4
            /\ Len(mesh.faces) = 2 * segments + 2
            /\ mesh.n_wall_vertices = 4 * segments
            /\ \A k \in 1 .. 4 * segments :
                    /\ mesh.vertices[k][2] \in { 0, 2500 }
                    /\ WithinUnit(mesh.vertices[k][1])
                    /\ WithinUnit(mesh.vertices[k][3])

\* C23 witness: two contours, one of them skipped, the other giving panels
C23_Witness ==
    /\ m_pc = "returned"
    /\ mesh.path = "architectural"
    /\ Len(mesh.contours) = 2
    /\ \E c \in 1 .. 2 : mesh.contours[c].raw_len < 4
    /\ mesh.n_wall_vertices >= 12
    /\ Len(mesh.vertices) = mesh.n_wall_vertices + 4

\* C30: the mesh create_mesh_from_depth builds is the one it builds for the
\* same depth field without a confidence map: vertices, faces and colours,
\* emitted and returned, are the same whatever the confidence map
C30_MeshIgnoresConfidence ==
    m_pc \in { "returned", "raised" } =>
        IF mesh.path = "heightmap"
        THEN mesh = DepthToMesh(depth_map, FieldHeight(depth_map), FieldWidth(depth_map),
                                NoField)
        ELSE mesh = ArchitecturalMesh(depth_map, mesh.contours)

\* C30 witness: a height-map mesh built next to a confidence map with values
\* below one half
C30_Witness ==
    /\ m_pc = "returned"
    /\ mesh.path = "heightmap"
    /\ confidence_map # NoField
    /\ \E v \in FieldValues(confidence_map) : 2 * v < Q
    /\ Len(mesh.faces) = 2

\* C6: in the architectural path, when no wall contour is found or every
\* contour is skipped, the builder returns the fallback box.
C6_FallbackBoxWhenNoWalls ==
    (m_pc = "returned" /\ mesh.path # "heightmap" /\ mesh.n_wall_vertices = 0) =>
        /\ mesh.path = "fallback_box"
        /\ Len(mesh.returned.vertices) = 8
        /\ Len(mesh.returned.faces) = 12

\* the number of depth values in [0, 0.2) or [0.8, 1.0]
ExtremeCount(d) ==
    Cardinality({ c \in FieldCells(d) :
        \/ 0 <= d[c[1]][c[2]] /\ d[c[1]][c[2]] < 200
        \/ 800 <= d[c[1]][c[2]] /\ d[c[1]][c[2]] <= Q })

\* C14: create_mesh_from_depth takes the architectural path exactly when at
\* least 60% of the depth values lie in [0, 0.2) or [0.8, 1.0], exactly 60%
\* included, and the height-map path otherwise
C14_ArchitecturalIffSixtyPercent ==
    m_pc \in { "returned", "raised" } =>
        (mesh.path # "heightmap" <=>
            10 * ExtremeCount(depth_map) >= 6 * FieldSize(depth_map))

-----------------------------------------------------------------------------
(* SpecShape *)

InitShape ==
    /\ sh_pc = "uploaded"
    /\ image_shape \in ImageSides \X ImageSides
    /\ depth_shape = <<0, 0>>
    /\ grid = NoGrid
    /\ MeshIdle
    /\ DepthIdle
    /\ JobsIdle
    /\ UnitIdle

\* estimate_depth keeps the size of an image within the cap
EstimateKeepsSize ==
    /\ sh_pc = "uploaded"
    /\ ~NeedsResize(image_shape[1], image_shape[2])
    /\ depth_shape' = image_shape
    /\ sh_pc' = "depth_ready"
    /\ UNCHANGED <<image_shape, grid, meshVars, depthVars, jobVars, unitVars>>

\* estimate_depth resizes a larger image; the image file is left as it is
EstimateResizes ==
    /\ sh_pc = "uploaded"
    /\ NeedsResize(image_shape[1], image_shape[2])
    /\ \E s \in ResizedShapes(image_shape[1], image_shape[2]) :
         /\ depth_shape' = s
         /\ sh_pc' = IF ResizeRaises(s) THEN "resize_raised" ELSE "depth_ready"
    /\ UNCHANGED <<image_shape, grid, meshVars, depthVars, jobVars, unitVars>>

\* create_mesh_from_depth reads the image file again (line 34) and hands it,
\* with the depth map, to _depth_to_mesh
CreateMeshShape ==
    /\ sh_pc = "depth_ready"
    /\ grid' = DepthToMeshShape(depth_shape, image_shape)
    /\ sh_pc' = "meshed"
    /\ UNCHANGED <<image_shape, depth_shape, meshVars, depthVars, jobVars, unitVars>>

NextShape == EstimateKeepsSize \/ EstimateResizes \/ CreateMeshShape

SpecShape == InitShape /\ [][NextShape]_vars

-----------------------------------------------------------------------------
(* Claims checked under SpecShape *)

\* C19: the grid _depth_to_mesh builds from a depth map of estimate_depth
\* (longer side at most 640) has, after the stride, at most 320 x 320 =
\* 102,400 vertices
C19_AtMostHundredThousandVertices ==
    sh_pc = "meshed" => grid.n_vertices <= 320 * 320

\* C10: an image whose longer side exceeds the cap of 640 is resized to a
\* shape whose longer side is within 1 of 640, whose sides are both >= 1 and
\* whose width/height ratio is within 1% of the original ratio; an image
\* within the cap keeps its size.
C10_ResizeWithinTolerance ==
    sh_pc \in {"depth_ready", "resize_raised"} =>
        LET h == image_shape[1]
            w == image_shape[2]
            nh == depth_shape[1]
            nw == depth_shape[2]
        IN  IF NeedsResize(h, w)
            THEN /\ Abs(Max2(nh, nw) - max_dim) <= 1
                 /\ nh >= 1 /\ nw >= 1
                 \* |nw/nh - w/h| <= 0.01 * w/h
                 /\ 100 * Abs(nw * h - w * nh) <= w * nh
            ELSE depth_shape = image_shape

\* the grid cells at which the colour alignment is probed
ProbeCells(g) ==
    { <<i, j>> \in {0, 1, g.height \div 2, g.height - 1}
                   \X {0, 1, g.width \div 2, g.width - 1} :
        i < g.height /\ j < g.width }

\* C7: in the height-map path there are as many colours as vertices, and the
\* vertex of grid cell (i, j) gets the colour of pixel (i, j) of the resized,
\* stride-subsampled image the depth field was computed from, also for
\* images whose longer side exceeds the cap.
C7_ColorsAlignedWithVertices ==
    sh_pc = "meshed" =>
        /\ grid.n_colors = grid.n_vertices
        /\ grid.image_height = grid.height /\ grid.image_width = grid.width
        /\ \A c \in ProbeCells(grid) :
              ColorSourcePixel(VertexIndex(c[1], c[2], grid.width),
                               grid.image_width, grid.downsample_factor)
              = <<grid.downsample_factor * c[1], grid.downsample_factor * c[2]>>

\* C9: the x and y extents of the height-map mesh are the same for every
\* grid size and every stride.
C9_ExtentsResolutionIndependent ==
    sh_pc = "meshed" =>
        \A s \in ImageSides \X ImageSides :
            LET other == DepthToMeshShape(s, s)
            IN  /\ FracEq(grid.x_min, other.x_min)
                /\ FracEq(grid.x_max, other.x_max)
                /\ FracEq(grid.y_min, other.y_min)
                /\ FracEq(grid.y_max, other.y_max)

-----------------------------------------------------------------------------
(* The web service, app.py.  The four singletons of lines 41-45 are shared  *)
(* by every request and every generation thread; generation_jobs (line 48)  *)
(* is the job store.  A thread is the closure generate_async of one         *)
(* /api/generate request: it holds the job record and the options of that   *)
(* request.                                                                 *)

MaxThreads == 2         \* generation threads started

\* the options tried, built at lines 194-199 from the request
OptionsTried ==
    { [ hallucinate_unseen |-> TRUE, wall_thickness |-> default_wall_thickness,
        generate_interiors |-> TRUE ],
      [ hallucinate_unseen |-> TRUE, wall_thickness |-> 500,
        generate_interiors |-> TRUE ],
      [ hallucinate_unseen |-> TRUE, wall_thickness |-> 500,
        generate_interiors |-> FALSE ],
      [ hallucinate_unseen |-> FALSE, wall_thickness |-> default_wall_thickness,
        generate_interiors |-> TRUE ] }

\* the formats asked of /api/download
FormatsTried == { "glb", "fbx", "obj" }

NotBuilt == 0 - 1       \* no wall built

NewThread(j, options) ==
    [ job |-> j, options |-> options, pc |-> "start",
      back_walls |-> NotBuilt, side_walls |-> NotBuilt, exported |-> "none" ]

ThreadIds == 1 .. Len(threads)

InitJobs ==
    /\ JobsIdle
    /\ ShapeIdle
    /\ UnitIdle
    /\ MeshIdle
    /\ DepthIdle

\* upload_image, lines 121-167: a request without a usable file is rejected
UploadRejected ==
    /\ response' = 400
    /\ UNCHANGED <<generation_jobs, threads, wall_thickness, files,
                   shapeVars, unitVars, meshVars, depthVars>>

\* upload_image: a fresh job id, the job stored as 'uploaded'
UploadImage(j) ==
    /\ generation_jobs[j] = NoJob
    /\ generation_jobs' = [ generation_jobs EXCEPT ![j] =
            [ status |-> "uploaded", progress |-> 0, current_step |-> "",
              output_files |-> {}, error |-> FALSE ] ]
    /\ response' = 200
    /\ UNCHANGED <<threads, wall_thickness, files, shapeVars, unitVars, meshVars, depthVars>>

\* a rejection that writes the refusal into the job record
GenerateRejected_MarksJob(j) ==
    /\ generation_jobs[j].status # "uploaded"
    /\ response' = IF generation_jobs[j] = NoJob THEN 404 ELSE 400
    /\ generation_jobs' = [ generation_jobs EXCEPT ![j] =
            IF @ = NoJob THEN @ ELSE [ @ EXCEPT !.status = "failed", !.error = TRUE ] ]
    /\ UNCHANGED <<threads, wall_thickness, files,
                   shapeVars, unitVars, meshVars, depthVars>>

\* generate_3d, lines 184-191: unknown job, or job not 'uploaded'
GenerateRejected(j) ==
    /\ generation_jobs[j].status # "uploaded"
    /\ response' = IF generation_jobs[j] = NoJob THEN 404 ELSE 400
    /\ UNCHANGED <<generation_jobs, threads, wall_thickness, files,
                   shapeVars, unitVars, meshVars, depthVars>>

\* generate_3d, lines 190-273: the job is 'uploaded'; the thread is started
\* and the handler answers.  The status is written by the thread, later.
GenerateStart(j, options) ==
    /\ generation_jobs[j].status = "uploaded"
    /\ Len(threads) < MaxThreads
    /\ threads' = Append(threads, NewThread(j, options))
    /\ response' = 200
    /\ UNCHANGED <<generation_jobs, wall_thickness, files,
                   shapeVars, unitVars, meshVars, depthVars>>

\* get_status, lines 279-301
GetStatus(j) ==
    /\ response' = IF generation_jobs[j] = NoJob THEN 404 ELSE 200
    /\ UNCHANGED <<generation_jobs, threads, wall_thickness, files,
                   shapeVars, unitVars, meshVars, depthVars>>

\* download_model, lines 305-340
DownloadModel(j, format) ==
    /\ response' =
         IF generation_jobs[j] = NoJob THEN 404
         ELSE IF generation_jobs[j].status # "completed" THEN 400
         ELSE IF format \notin { "glb", "fbx" } THEN 400
         ELSE IF format \notin generation_jobs[j].output_files THEN 404
         ELSE IF <<j, format>> \notin files THEN 404
         ELSE 200
    /\ UNCHANGED <<generation_jobs, threads, wall_thickness, files,
                   shapeVars, unitVars, meshVars, depthVars>>

\* the thread t at position pc moves to position next
At(t, pc) == t \in ThreadIds /\ threads[t].pc = pc
JobOf(t) == threads[t].job

\* lines 204-210
BeginProcessing(t) ==
    /\ At(t, "start")
    /\ generation_jobs' = [ generation_jobs EXCEPT ![JobOf(t)] =
            [ @ EXCEPT !.status = "processing", !.progress = 20,
                       !.current_step = "Estimating depth" ] ]
    /\ threads' = [ threads EXCEPT ![t].pc = "estimate_depth" ]
    /\ UNCHANGED <<wall_thickness, files, response, shapeVars, unitVars, meshVars, depthVars>>

\* an except clause that records the error and leaves the status alone
Failed_StatusKept(job) == [ job EXCEPT !.error = TRUE, !.progress = 0 ]

\* lines 256-260: the except clause of generate_async
Failed(job) == [ job EXCEPT !.status = "failed", !.error = TRUE, !.progress = 0 ]

\* lines 211-215: estimate_depth returns
EstimateDepthReturns(t) ==
    /\ At(t, "estimate_depth")
    /\ generation_jobs' = [ generation_jobs EXCEPT ![JobOf(t)] =
            [ @ EXCEPT !.progress = 40, !.current_step = "Generating base mesh" ] ]
    /\ threads' = [ threads EXCEPT ![t].pc = "create_mesh" ]
    /\ UNCHANGED <<wall_thickness, files, response, shapeVars, unitVars, meshVars, depthVars>>

\* line 211 and lines 256-260: estimate_depth raises
EstimateDepthRaises(t) ==
    /\ At(t, "estimate_depth")
    /\ generation_jobs' = [ generation_jobs EXCEPT ![JobOf(t)] = Failed(@) ]
    /\ threads' = [ threads EXCEPT ![t].pc = "done" ]
    /\ UNCHANGED <<wall_thickness, files, response, shapeVars, unitVars, meshVars, depthVars>>

\* lines 216-232: create_mesh_from_depth returns
CreateMeshReturns(t) ==
    /\ At(t, "create_mesh")
    /\ IF threads[t].options.hallucinate_unseen
       THEN /\ generation_jobs' = [ generation_jobs EXCEPT ![JobOf(t)] =
                    [ @ EXCEPT !.progress = 60,
                               !.current_step = "Hallucinating unseen areas" ] ]
            /\ threads' = [ threads EXCEPT ![t].pc = "extract_options" ]
       ELSE /\ generation_jobs' = [ generation_jobs EXCEPT ![JobOf(t)] =
                    [ @ EXCEPT !.progress = 80, !.current_step = "Exporting models" ] ]
            /\ threads' = [ threads EXCEPT ![t].pc = "export",
                                           ![t].exported = "base_mesh" ]
    /\ UNCHANGED <<wall_thickness, files, response, shapeVars, unitVars, meshVars, depthVars>>

\* lines 216-218 and 256-260: create_mesh_from_depth raises
CreateMeshRaises(t) ==
    /\ At(t, "create_mesh")
    /\ generation_jobs' = [ generation_jobs EXCEPT ![JobOf(t)] = Failed(@) ]
    /\ threads' = [ threads EXCEPT ![t].pc = "done" ]
    /\ UNCHANGED <<wall_thickness, files, response, shapeVars, unitVars, meshVars, depthVars>>

\* generate_unseen_geometry, lines 36-48: the options are stored on the
\* generator, the scene is analysed
ExtractOptions(t) ==
    /\ At(t, "extract_options")
    /\ wall_thickness' = threads[t].options.wall_thickness
    /\ threads' = [ threads EXCEPT ![t].pc =
            IF threads[t].options.generate_interiors THEN "back_walls" ELSE "combine" ]
    /\ UNCHANGED <<generation_jobs, files, response, shapeVars, unitVars, meshVars, depthVars>>

\* _generate_back_walls, lines 152-172: the thickness is read off the generator
GenerateBackWalls(t) ==
    /\ At(t, "back_walls")
    /\ threads' = [ threads EXCEPT ![t].back_walls = wall_thickness,
                                   ![t].pc = "side_walls" ]
    /\ UNCHANGED <<generation_jobs, wall_thickness, files, response,
                   shapeVars, unitVars, meshVars, depthVars>>

\* _generate_side_walls, lines 258-287: the thickness is read off the generator
GenerateSideWalls(t) ==
    /\ At(t, "side_walls")
    /\ threads' = [ threads EXCEPT ![t].side_walls = wall_thickness,
                                   ![t].pc = "combine" ]
    /\ UNCHANGED <<generation_jobs, wall_thickness, files, response,
                   shapeVars, unitVars, meshVars, depthVars>>

\* an exception of the generator that is passed on to generate_async
GenerationFails_Propagates(t) ==
    /\ t \in ThreadIds
    /\ threads[t].pc \in { "back_walls", "side_walls" }
    /\ generation_jobs' = [ generation_jobs EXCEPT ![JobOf(t)] =
            [ @ EXCEPT !.status = "failed", !.error = TRUE, !.progress = 0 ] ]
    /\ threads' = [ threads EXCEPT ![t].pc = "done" ]
    /\ UNCHANGED <<wall_thickness, files, response, shapeVars, unitVars, meshVars, depthVars>>

\* lines 41-81 and 99-102, app.py lines 226-237: the scene analysis, the
\* bounds or a later step raises inside the try block; the except clause
\* returns base_mesh and generate_async goes on to the export
GenerationFails(t) ==
    /\ t \in ThreadIds
    /\ threads[t].pc \in { "back_walls", "side_walls" }
    /\ generation_jobs' = [ generation_jobs EXCEPT ![JobOf(t)] =
            [ @ EXCEPT !.progress = 80, !.current_step = "Exporting models" ] ]
    /\ threads' = [ threads EXCEPT ![t].pc = "export", ![t].exported = "base_mesh" ]
    /\ UNCHANGED <<wall_thickness, files, response, shapeVars, unitVars, meshVars, depthVars>>

\* lines 84-102 and app.py lines 233-235: the meshes are combined and the
\* enhanced mesh returned, or an exception is caught and the base mesh returned
Combine(t, result) ==
    /\ At(t, "combine")
    /\ generation_jobs' = [ generation_jobs EXCEPT ![JobOf(t)] =
            [ @ EXCEPT !.progress = 80, !.current_step = "Exporting models" ] ]
    /\ threads' = [ threads EXCEPT ![t].pc = "export", ![t].exported = result ]
    /\ UNCHANGED <<wall_thickness, files, response, shapeVars, unitVars, meshVars, depthVars>>

\* lines 237-254: export_glb and export_fbx catch what they raise and answer
\* False; the answer is not looked at.  glb is TRUE when the .glb file was
\* written; fbx names the file written in place of the .fbx file.
ExportModels(t, glb, fbx) ==
    /\ At(t, "export")
    /\ files' = files \cup (IF glb THEN { <<JobOf(t), "glb">> } ELSE {})
                      \cup (IF fbx # "none" THEN { <<JobOf(t), fbx>> } ELSE {})
    /\ generation_jobs' = [ generation_jobs EXCEPT ![JobOf(t)] =
            [ @ EXCEPT !.progress = 100, !.status = "completed",
                       !.current_step = "Complete",
                       !.output_files = { "glb", "fbx" } ] ]
    /\ threads' = [ threads EXCEPT ![t].pc = "done" ]
    /\ UNCHANGED <<wall_thickness, response, shapeVars, unitVars, meshVars, depthVars>>

NextJobs ==
    \/ UploadRejected
    \/ \E j \in JobIds : UploadImage(j)
    \/ \E j \in JobIds : GenerateRejected(j)
    \/ \E j \in JobIds, options \in OptionsTried : GenerateStart(j, options)
    \/ \E j \in JobIds : GetStatus(j)
    \/ \E j \in JobIds, format \in FormatsTried : DownloadModel(j, format)
    \/ \E t \in 1 .. MaxThreads : BeginProcessing(t)
    \/ \E t \in 1 .. MaxThreads : EstimateDepthReturns(t)
    \/ \E t \in 1 .. MaxThreads : EstimateDepthRaises(t)
    \/ \E t \in 1 .. MaxThreads : CreateMeshReturns(t)
    \/ \E t \in 1 .. MaxThreads : CreateMeshRaises(t)
    \/ \E t \in 1 .. MaxThreads : ExtractOptions(t)
    \/ \E t \in 1 .. MaxThreads : GenerateBackWalls(t)
    \/ \E t \in 1 .. MaxThreads : GenerateSideWalls(t)
    \/ \E t \in 1 .. MaxThreads : GenerationFails(t)
    \/ \E t \in 1 .. MaxThreads, result \in { "enhanced_mesh", "base_mesh" } :
            Combine(t, result)
    \/ \E t \in 1 .. MaxThreads, glb \in BOOLEAN, fbx \in { "fbx", "obj", "none" } :
            ExportModels(t, glb, fbx)

SpecJobs == InitJobs /\ [][NextJobs]_vars

\* the statements of generate_async that thread t may execute next
ThreadStep(t) ==
    \/ BeginProcessing(t)
    \/ EstimateDepthReturns(t)
    \/ EstimateDepthRaises(t)
    \/ CreateMeshReturns(t)
    \/ CreateMeshRaises(t)
    \/ ExtractOptions(t)
    \/ GenerateBackWalls(t)
    \/ GenerateSideWalls(t)
    \/ GenerationFails(t)
    \/ \E result \in { "enhanced_mesh", "base_mesh" } : Combine(t, result)
    \/ \E glb \in BOOLEAN, fbx \in { "fbx", "obj", "none" } : ExportModels(t, glb, fbx)

\* a started thread is scheduled again and again, and each pipeline step it
\* calls returns or raises
SpecJobsLive ==
    SpecJobs /\ \A t \in 1 .. MaxThreads : WF_vars(ThreadStep(t))

-----------------------------------------------------------------------------
(* Claims checked under SpecJobs *)

\* the threads of other jobs than the job of t
OtherJobs(t) == { u \in ThreadIds : threads[u].job # threads[t].job }

\* C8: the wall thickness a job's back and side walls are built with is the
\* wall_thickness option of that job's own request, whatever other jobs run
\* (looked at for a job with one thread, next to threads of other jobs)
C8_WallThicknessIsOwn ==
    \A t \in ThreadIds :
        (\A u \in ThreadIds \ {t} : u \in OtherJobs(t)) =>
            /\ threads[t].back_walls # NotBuilt =>
                   threads[t].back_walls = threads[t].options.wall_thickness
            /\ threads[t].side_walls # NotBuilt =>
                   threads[t].side_walls = threads[t].options.wall_thickness

\* C16: a job whose status is completed has, for every format listed in its
\* output_files, the file of that format written in the output folder
C16_CompletedOnlyIfWritten ==
    \A j \in JobIds :
        generation_jobs[j].status = "completed" =>
            \A format \in generation_jobs[j].output_files : <<j, format>> \in files

\* the moves of a job's status the service is meant to make
AllowedMove(from, to) ==
    \/ from = to
    \/ <<from, to>> \in { <<"none", "uploaded">>, <<"uploaded", "processing">>,
                          <<"processing", "completed">>, <<"processing", "failed">> }

\* C25: in every step a job's status stays as it is or moves uploaded ->
\* processing -> completed or failed; a completed or failed job keeps its
\* status
C25_StatusOnlyMovesForward ==
    [][\A j \in JobIds :
          AllowedMove(generation_jobs[j].status, generation_jobs'[j].status)]_vars

\* C26: no two generation threads are started for the same job
C26_OneThreadPerJob ==
    \A t, u \in ThreadIds : t # u => threads[t].job # threads[u].job

\* the job has ended: completed with progress 100 and its output files
\* listed, or failed with progress 0 and the error recorded
Ended(job) ==
    \/ job.status = "completed" /\ job.progress = 100 /\ job.output_files # {}
    \/ job.status = "failed" /\ job.progress = 0 /\ job.error

RejectedRequest ==
    \/ \E j \in JobIds : GenerateRejected(j)
    \/ \E j \in JobIds, format \in FormatsTried : DownloadModel(j, format) /\ response' # 200
    \/ response' # response /\ response' \in { 400, 404 }

\* C28: a refused request (generate: unknown job 404, job not uploaded 400;
\* download: unknown job 404, job not completed 400, format not glb/fbx 400)
\* leaves the job store, the threads and the output folder as they were
C28_RejectedRequestChangesNothing ==
    [][RejectedRequest => UNCHANGED <<generation_jobs, threads, files>>]_vars

\* C28 witness: a refusal with status 400 while a job is being processed by
\* its one thread
C28_Witness ==
    /\ response = 400
    /\ Len(threads) = 1
    /\ generation_jobs[JobOf(1)].status = "processing"

\* the positions of a thread inside generate_unseen_geometry
InGenerator == { "extract_options", "back_walls", "side_walls", "combine" }

\* C29: generate_unseen_geometry never raises: a thread inside it moves on
\* inside it or to the export, its job not failed by the step; when it
\* leaves before the meshes are combined it hands back the base mesh; and
\* without hallucinate_unseen the mesh exported is the base mesh
C29_GeneratorFallsBackToBaseMesh ==
    [][\A t \in ThreadIds :
          /\ (threads[t].pc \in InGenerator /\ threads'[t].pc # threads[t].pc) =>
                /\ threads'[t].pc \in InGenerator \cup { "export" }
                /\ generation_jobs'[JobOf(t)].status = generation_jobs[JobOf(t)].status
                /\ threads'[t].pc = "export" =>
                      /\ threads'[t].exported \in { "base_mesh", "enhanced_mesh" }
                      /\ threads[t].pc # "combine" => threads'[t].exported = "base_mesh"
          /\ (threads'[t].pc = "export" /\ ~threads[t].options.hallucinate_unseen) =>
                threads'[t].exported = "base_mesh"]_vars

\* C29 witness: hallucination was asked for with interiors, no side wall was
\* built, and the base mesh goes to the export
C29_Witness ==
    \E t \in ThreadIds :
        /\ threads[t].pc = "export"
        /\ threads[t].options.hallucinate_unseen
        /\ threads[t].options.generate_interiors
        /\ threads[t].side_walls = NotBuilt
        /\ threads[t].exported = "base_mesh"

=============================================================================
